---- MODULE Spec2Model ----
(***************************************************************************)
(* Model of the generate -> validate -> retry pipeline of the Linear       *)
(* developer agent: the V2 orchestrator (ClaudeAutomationV2.processIssue   *)
(* and implementWithValidation), the local FileOperations.applyChanges,    *)
(* the prompt built by CodeGenerator, and the GitHub publisher             *)
(* (GitHubFileOperations.commitFiles).                                     *)
(***************************************************************************)
EXTENDS Integers, Sequences, FiniteSets, TLC

VARIABLES
  pc,            \* position of processIssue / implementWithValidation
  inflight,      \* awaited collaborator calls that have not settled yet
  maxAttempts,   \* parameter of implementWithValidation
  attempt,       \* loop counter of implementWithValidation
  toolInstalled, \* environment: does `which xcodebuild` succeed
  canBuild,      \* const canBuild
  issue,         \* the Linear issue object (fields may be added)
  result,        \* const result (CodeGenerationResult), <<>> before the first
  validation,    \* const validation (ValidationResult), <<>> when none
  workingTree,   \* files under repoPath: path -> content or Absent
  baseline,      \* the working tree when the run started
  prompt,        \* text of the last request sent to the model
  modelCalls,    \* number of generateImplementation invocations
  validateCalls, \* number of validateBuild invocations
  attempts,      \* how each finished attempt ended, in order
  lastAttempt,   \* the attempt that finished last, <<>> before
  outcome,       \* value returned by implementWithValidation, <<>> before
  localCommits,  \* trees committed on the local branch by commitChanges
  pushed,        \* trees pushed to origin by pushBranch
  prBodies,      \* bodies of the pull requests created
  thrown,        \* the error processIssue rejected with, <<>> while none
  ghPc,          \* position of a GitHubFileOperations.commitFiles call
  files,         \* commitFiles argument: GitHubFile[]
  refs,          \* hosting side: branch name -> commit sha
  commits,       \* hosting side: commit objects, sha = index
  trees,         \* hosting side: tree objects, sha = index
  blobs,         \* hosting side: blob contents created
  currentCommitSha, \* locals of commitFiles
  currentTreeSha,
  fileIdx,          \* index of the file the blob loop is at
  tree,
  newTreeSha,
  newCommitSha,
  runs,          \* the service: processIssue calls started by the HTTP handlers
  repo,          \* the service: the local git repository under repoPath
  httpStatus,    \* the service: status of the last HTTP response
  env,           \* the service: process.env as read at start-up
  execResult,    \* BuildValidator: how the xcodebuild command line ended
  buildValidation, \* BuildValidator: value returned by validateBuild, <<>> before
  ctxEnv,        \* context assembly: the issue's mentions and the file system
  ctxOut,        \* context assembly: outcome of gatherContext and the model call
  response,      \* parseFileChanges: the model's reply
  fileChanges,   \* parseFileChanges: the value returned, <<>> before
  issueText,     \* extractFilePaths: the issue description
  filePaths,     \* extractFilePaths: the value returned, <<>> before
  tokenLogin,    \* PR feedback: login of the account GITHUB_TOKEN belongs to
  prComments,    \* PR feedback: comments the handler posted on the pull request
  delivered,     \* PR feedback: the event of the last /webhook/github request, <<>> before
  feedbackRuns,  \* PR feedback: processFeedback calls started
  ghStatus,      \* PR feedback: status of the last /webhook/github response
  cloud,         \* V3: position and locals of a ClaudeAutomationV3.processIssue run
  branchCall,    \* GitHubFileOperations.createBranch: position and request counts of a call
  heads          \* hosting side of V3 and createBranch: branch name -> commit sha, 0 when absent

vars == <<pc, inflight, maxAttempts, attempt, toolInstalled, canBuild, issue,
          result, validation, workingTree, baseline, prompt, modelCalls,
          validateCalls, attempts, lastAttempt, outcome, localCommits, pushed,
          prBodies, ghPc, files, refs, commits, trees, blobs, currentCommitSha,
          currentTreeSha, fileIdx, tree, newTreeSha, newCommitSha, thrown,
          runs, repo, httpStatus, env, execResult, buildValidation, ctxEnv,
          ctxOut,
          response, fileChanges, issueText, filePaths, tokenLogin, prComments,
          delivered, feedbackRuns, ghStatus,
          cloud, branchCall, heads>>

(***************************************************************************)
(* Bounds and small value sets.                                            *)
(***************************************************************************)
MaxAttemptsBound == 3

Absent == "<absent>"

Paths == {"A.swift", "B.swift"}

Change(p, a, c) == [filePath |-> p, action |-> a, content |-> c]

\* Change sets the parser can return for a model answer (the answer itself
\* is opaque text): none, single operations of each action, an operation
\* with an empty body, and a two-file change set.
ChangeSets ==
  { <<>>,
    <<Change("A.swift", "create", "a1")>>,
    <<Change("B.swift", "create", "b1")>>,
    <<Change("A.swift", "modify", "a2")>>,
    <<Change("A.swift", "modify", "")>>,
    <<Change("A.swift", "delete", "")>>,
    <<Change("A.swift", "modify", "a2"), Change("B.swift", "create", "b1")>> }

\* Working trees a run can start from (HEAD of main, clean).
Baselines ==
  { [p \in Paths |-> Absent],
    [p \in Paths |-> IF p = "A.swift" THEN "a0" ELSE Absent] }

\* Results validateBuild can return: errors are capped by extractErrors.
ValidationResults ==
  { [success |-> TRUE,  errors |-> <<>>,           warnings |-> <<>>],
    [success |-> TRUE,  errors |-> <<>>,           warnings |-> <<"W1">>],
    [success |-> FALSE, errors |-> <<"E1">>,       warnings |-> <<>>],
    [success |-> FALSE, errors |-> <<"E1", "E2">>, warnings |-> <<"W1">>],
    [success |-> FALSE, errors |-> <<>>,           warnings |-> <<>>] }

\* Issue descriptions: one that names no file and one that names A.swift.
Descriptions == { "Add a feature", "Files: A.swift" }

Range(s) == { s[i] : i \in DOMAIN s }

\* commitFiles inputs: up to MaxFiles files with distinct paths.
MaxFiles == 2

GhPaths == {"A.swift", "B.swift", "C.swift"}

GitHubFile(p, c) == [path |-> p, content |-> c]

GitHubFileLists ==
  { fs \in UNION { [1..n -> [path : GhPaths, content : {"", "new"}]] : n \in 1..MaxFiles } :
      \A i, j \in DOMAIN fs : i # j => fs[i].path # fs[j].path }

\* Trees the branch head can hold before the commit.
GhBaseTrees ==
  { [p \in GhPaths |-> Absent],
    [p \in GhPaths |-> IF p = "A.swift" THEN "old" ELSE Absent] }

(***************************************************************************)
(* FileOperations.applyChanges: the changes are applied in order to the    *)
(* files under repoPath.  create/modify write the content only when it is  *)
(* truthy (a non-empty string); delete unlinks the file, and fs.unlink     *)
(* rejects when the file does not exist, which ends the loop with the      *)
(* earlier changes already written.                                        *)
(***************************************************************************)
WriteSkipsFalsyContent(wt, change) ==
  IF change.content # "" THEN [wt EXCEPT ![change.filePath] = change.content]
  ELSE wt

\* Variant: a delete leaves the file in place with empty content.
truncates(wt, p) == [wt EXCEPT ![p] = ""]

\* deleteFile, lines 67-71: fs.unlink removes the file.
unlink(wt, p) == [wt EXCEPT ![p] = Absent]

applyChange(wt, change) ==
  IF change.action \in {"create", "modify"}
    THEN [tree |-> WriteSkipsFalsyContent(wt, change), threw |-> FALSE]
    ELSE IF wt[change.filePath] = Absent
           THEN [tree |-> wt, threw |-> TRUE]
           ELSE [tree |-> unlink(wt, change.filePath), threw |-> FALSE]

RECURSIVE applyFrom(_, _, _)
applyFrom(wt, changes, i) ==
  IF i > Len(changes) THEN [tree |-> wt, threw |-> FALSE]
  ELSE LET r == applyChange(wt, changes[i])
       IN IF r.threw THEN r ELSE applyFrom(r.tree, changes, i + 1)

applyChanges(wt, changes) == applyFrom(wt, changes, 1)

(***************************************************************************)
(* CodeGenerator.gatherContext and buildPrompt.  The prompt is modelled as *)
(* the set of text segments it is assembled from; a segment that quotes a  *)
(* file carries the file's path.                                           *)
(***************************************************************************)
Segment(k, p, t) == [kind |-> k, path |-> p, text |-> t]

\* Paths that extractFilePaths finds in the issue description.
mentionedFiles(description) ==
  IF description = "Files: A.swift" THEN {"A.swift"} ELSE {}

\* Files that git ls-files lists: the files tracked at HEAD.
trackedFiles(head) == { p \in Paths : head[p] # Absent }

\* context: the mentioned files and the relevant files that can be read.
gatherContext(iss, wt, relevant) ==
  { p \in mentionedFiles(iss.description) \cup relevant : wt[p] # Absent }

IssueSegments(iss) ==
  { Segment("ID", "", iss.identifier),
    Segment("Title", "", iss.title),
    Segment("Priority", "", iss.priority),
    Segment("Labels", "", iss.labelNames),
    Segment("Description", "", iss.description) }

\* Variant: the repair fields of the issue, when it has them, are rendered too.
RepairSegments(iss) ==
  (IF "buildErrors" \in DOMAIN iss
     THEN { Segment("Build error", "", e) : e \in Range(iss.buildErrors) }
     ELSE {})
  \cup
  (IF "previousAttempt" \in DOMAIN iss
     THEN { Segment("Previous attempt", c.filePath, c.content) :
              c \in Range(iss.previousAttempt.changes) }
     ELSE {})

buildPromptWithRepair(iss, wt, context) ==
  IssueSegments(iss)
  \cup (IF context = {}
          THEN { Segment("Context", "", "No existing files provided") }
          ELSE { Segment("File", p, wt[p]) : p \in context })
  \cup RepairSegments(iss)

buildPrompt(iss, wt, context) ==
  IssueSegments(iss)
  \cup (IF context = {}
          THEN { Segment("Context", "", "No existing files provided") }
          ELSE { Segment("File", p, wt[p]) : p \in context })

\* issueData = { ...issue, labelNames }
withField(r, f, v) == [k \in DOMAIN r \cup {f} |-> IF k = f THEN v ELSE r[k]]

(***************************************************************************)
(* ClaudeAutomationV2: processIssue and implementWithValidation.           *)
(***************************************************************************)
Result == result[1]

\* Variant: applyChanges is called without await, the caller runs on.
NoAwait(op) == IF op = "applyChanges" THEN "checkCanBuild" ELSE op

\* `await call(...)`: the caller stays suspended at the call until it settles.
Await(op) == op

\* Collaborator calls that can reject; isXcodebuildAvailable and
\* validateBuild catch every failure themselves, and applyChanges rejects
\* exactly when a delete finds no file.
Rejectable ==
  { "getLinearIssue", "logIssueDetails", "createBranch", "generateImplementation",
    "commitChanges", "pushBranch", "createPullRequest" }

\* Variant: the returned object carries the change set saved for the repair
\* prompt (issue.previousAttempt) where there is one.
ReturnedPrevious(success, n, res, val) ==
  [success |-> success, attempts |-> n,
   result |-> IF "previousAttempt" \in DOMAIN issue THEN issue.previousAttempt ELSE res,
   validation |-> val]

\* The value returned by implementWithValidation; `validation` is <<>> where
\* the returned object has no validation property.
Returned(success, n, res, val) ==
  [success |-> success, attempts |-> n, result |-> res, validation |-> val]

AttemptRecord(n, res, val) ==
  [attemptNumber |-> n, changeSet |-> res.changes, validation |-> val]

\* How an attempt ended: without a change set, with a failed or a passed
\* build, or applied without a build.
Ended(res, val, built) ==
  IF Len(res.changes) = 0 THEN "empty"
  ELSE IF ~built THEN "unverified"
  ELSE IF val[1].success THEN "passed" ELSE "failed"

\* Variant: an empty change set always continues the loop.
neverReturnsWhenEmpty(att, max) == FALSE

\* Line 108: an empty change set ends the run only on the last attempt.
returnsWhenEmpty(att, max) == att = max

\* Variant: a failed build always goes round the loop again.
alwaysRetriesAfterFailure(att, max) == TRUE

\* Line 150: a failed build is retried while attempts remain.
retriesAfterFailure(att, max) == att < max

\* Variant: a retry that does not consume the budget.
nextAttemptStuck(att) == att

\* Line 98: attempt++ when the loop body continues.
nextAttempt(att) == att + 1

\* Variant: the build is run whether or not xcodebuild is available.
neverSkipsValidation(cb) == FALSE

\* Line 118: without xcodebuild the attempt is accepted without a build.
skipsValidation(cb) == ~cb

\* Variant: the result is published whatever its success flag.
publishesAnyway(impl) == FALSE

\* Line 66: a result that is not a success is not published.
throwsOnFailure(impl) == ~impl.success

\* The tree of the local branch head, which git status compares against.
headTree == IF localCommits = <<>> THEN baseline
            ELSE localCommits[Len(localCommits)].tree

\* Variant: the body reports a passed build unconditionally.
alwaysPassedLine(impl) == "Build validation passed"

\* Line 296: the "## Validation" line of the pull-request body.
validationLine(impl) ==
  IF impl.validation # <<>> /\ impl.validation[1].success
    THEN "Build validation passed"
    ELSE "Build validation skipped or failed"

createPullRequestBody(impl) ==
  [summary |-> impl.result.summary,
   filesChanged |-> [i \in DOMAIN impl.result.changes |-> impl.result.changes[i].filePath],
   attempts |-> impl.attempts,
   validation |-> validationLine(impl),
   warnings |-> IF impl.validation # <<>> THEN Len(impl.validation[1].warnings) ELSE 0,
   testingNotes |-> impl.result.testingNotes]

ghvars == <<ghPc, files, refs, commits, trees, blobs, currentCommitSha,
            currentTreeSha, fileIdx, tree, newTreeSha, newCommitSha>>

v2vars == <<pc, inflight, maxAttempts, attempt, toolInstalled, canBuild, issue,
            result, validation, workingTree, baseline, prompt, modelCalls,
            validateCalls, attempts, lastAttempt, outcome, localCommits, pushed,
            prBodies, thrown>>

svcvars == <<runs, repo, httpStatus, env>>

valvars == <<execResult, buildValidation>>

ctxvars == <<ctxEnv, ctxOut>>

parsevars == <<response, fileChanges>>

extvars == <<issueText, filePaths>>

fbvars == <<tokenLogin, prComments, delivered, feedbackRuns, ghStatus>>

cloudvars == <<cloud, branchCall, heads>>

morevars == <<extvars, fbvars, cloudvars>>

auxvars == <<svcvars, valvars, ctxvars, parsevars, morevars>>

\* The subsystems a specification leaves out stay at these values.
SvcIdle == runs = <<>> /\ repo = <<>> /\ httpStatus = 0 /\ env = <<>>

ValIdle == execResult = <<>> /\ buildValidation = <<>>

CtxIdle == ctxEnv = <<>> /\ ctxOut = <<>>

ParseIdle == response = <<>> /\ fileChanges = <<>>

ExtIdle == issueText = <<>> /\ filePaths = <<>>

FbIdle ==
  /\ tokenLogin = ""
  /\ prComments = <<>>
  /\ delivered = <<>>
  /\ feedbackRuns = <<>>
  /\ ghStatus = 0

CloudIdle == cloud = <<>> /\ branchCall = <<>> /\ heads = <<>>

MoreIdle == ExtIdle /\ FbIdle /\ CloudIdle

\* Variant: a rejected collaborator call is issued again.
retriesOnReject(op) == op

\* Lines 86-89: the catch block of processIssue rethrows.
onReject(op) == "threw"

Start(op) ==
  /\ pc = op
  /\ op \notin inflight
  /\ inflight' = inflight \cup {op}
  /\ pc' = Await(op)

Settles(op) ==
  /\ pc = op
  /\ op \in inflight
  /\ inflight' = inflight \ {op}

\* Lines 52-55.
GetLinearIssueStart ==
  /\ Start("getLinearIssue")
  /\ UNCHANGED <<ghvars, auxvars>>
  /\ UNCHANGED <<thrown, maxAttempts, attempt, toolInstalled, canBuild, issue, result,
                 validation, workingTree, baseline, prompt, modelCalls,
                 validateCalls, attempts, lastAttempt, outcome, localCommits, pushed, prBodies>>

GetLinearIssueReturns ==
  /\ Settles("getLinearIssue")
  /\ \E found \in BOOLEAN :
       IF found THEN pc' = "logIssueDetails" /\ UNCHANGED thrown
                ELSE pc' = "threw" /\ thrown' = << "Issue not found" >>
  /\ UNCHANGED <<ghvars, auxvars>>
  /\ UNCHANGED <<maxAttempts, attempt, toolInstalled, canBuild, issue, result,
                 validation, workingTree, baseline, prompt, modelCalls,
                 validateCalls, attempts, lastAttempt, outcome, localCommits, pushed, prBodies>>

\* Line 57.
LogIssueDetailsStart ==
  /\ Start("logIssueDetails")
  /\ UNCHANGED <<ghvars, auxvars>>
  /\ UNCHANGED <<thrown, maxAttempts, attempt, toolInstalled, canBuild, issue, result,
                 validation, workingTree, baseline, prompt, modelCalls,
                 validateCalls, attempts, lastAttempt, outcome, localCommits, pushed, prBodies>>

LogIssueDetailsReturns ==
  /\ Settles("logIssueDetails")
  /\ pc' = "createBranch"
  /\ UNCHANGED <<ghvars, auxvars>>
  /\ UNCHANGED <<thrown, maxAttempts, attempt, toolInstalled, canBuild, issue, result,
                 validation, workingTree, baseline, prompt, modelCalls,
                 validateCalls, attempts, lastAttempt, outcome, localCommits, pushed, prBodies>>

\* Lines 60-61.
CreateBranchStart ==
  /\ Start("createBranch")
  /\ UNCHANGED <<ghvars, auxvars>>
  /\ UNCHANGED <<thrown, maxAttempts, attempt, toolInstalled, canBuild, issue, result,
                 validation, workingTree, baseline, prompt, modelCalls,
                 validateCalls, attempts, lastAttempt, outcome, localCommits, pushed, prBodies>>

CreateBranchReturns ==
  /\ Settles("createBranch")
  /\ pc' = "isXcodebuildAvailable"
  /\ UNCHANGED <<ghvars, auxvars>>
  /\ UNCHANGED <<thrown, maxAttempts, attempt, toolInstalled, canBuild, issue, result,
                 validation, workingTree, baseline, prompt, modelCalls,
                 validateCalls, attempts, lastAttempt, outcome, localCommits, pushed, prBodies>>

\* Line 96.
IsXcodebuildAvailableStart ==
  /\ Start("isXcodebuildAvailable")
  /\ UNCHANGED <<ghvars, auxvars>>
  /\ UNCHANGED <<thrown, maxAttempts, attempt, toolInstalled, canBuild, issue, result,
                 validation, workingTree, baseline, prompt, modelCalls,
                 validateCalls, attempts, lastAttempt, outcome, localCommits, pushed, prBodies>>

\* Lines 96-98: const canBuild = ...; let attempt = 1.
IsXcodebuildAvailableReturns ==
  /\ Settles("isXcodebuildAvailable")
  /\ canBuild' = toolInstalled
  /\ attempt' = 1
  /\ pc' = "loop"
  /\ UNCHANGED <<ghvars, auxvars>>
  /\ UNCHANGED <<thrown, maxAttempts, toolInstalled, issue, result,
                 validation, workingTree, baseline, prompt, modelCalls,
                 validateCalls, attempts, lastAttempt, outcome, localCommits, pushed, prBodies>>

\* Line 98: attempt <= maxAttempts, else the throw of line 166.
Loop ==
  /\ pc = "loop"
  /\ pc' = IF attempt <= maxAttempts THEN "generateImplementation" ELSE "postLoopThrow"
  /\ UNCHANGED <<ghvars, auxvars>>
  /\ UNCHANGED <<thrown, inflight, maxAttempts, attempt, toolInstalled, canBuild, issue, result,
                 validation, workingTree, baseline, prompt, modelCalls,
                 validateCalls, attempts, lastAttempt, outcome, localCommits, pushed, prBodies>>

\* Line 104 with generateImplementation's lines 27-38: the context is read
\* and the prompt is sent to the model.
GenerateImplementationStart ==
  /\ Start("generateImplementation")
  /\ modelCalls' = modelCalls + 1
  /\ \E relevant \in SUBSET trackedFiles(baseline) :
       prompt' = buildPrompt(withField(issue, "labelNames", "bug"), workingTree,
                             gatherContext(issue, workingTree, relevant))
  /\ UNCHANGED <<ghvars, auxvars>>
  /\ UNCHANGED <<thrown, maxAttempts, attempt, toolInstalled, canBuild, issue, result,
                 validation, workingTree, baseline,
                 validateCalls, attempts, lastAttempt, outcome, localCommits, pushed, prBodies>>

\* Lines 41-48 and 104: the parsed change set of the model's answer.
GenerateImplementationReturns ==
  /\ Settles("generateImplementation")
  /\ \E cs \in ChangeSets :
       result' = << [changes |-> cs, summary |-> "S", testingNotes |-> "N"] >>
  /\ pc' = "checkChanges"
  /\ UNCHANGED <<ghvars, auxvars>>
  /\ UNCHANGED <<thrown, maxAttempts, attempt, toolInstalled, canBuild, issue,
                 validation, workingTree, baseline, prompt, modelCalls,
                 validateCalls, attempts, lastAttempt, outcome, localCommits, pushed, prBodies>>

\* Lines 106-112.
CheckChanges ==
  /\ pc = "checkChanges"
  /\ IF Len(Result.changes) = 0
       THEN /\ attempts' = Append(attempts, "empty")
            /\ lastAttempt' = << AttemptRecord(attempt, Result, <<>>) >>
            /\ IF returnsWhenEmpty(attempt, maxAttempts)
                 THEN /\ outcome' = << Returned(FALSE, attempt, Result, <<>>) >>
                      /\ pc' = "checkSuccess"
                      /\ UNCHANGED attempt
                 ELSE /\ attempt' = nextAttempt(attempt)
                      /\ pc' = "loop"
                      /\ UNCHANGED outcome
       ELSE /\ pc' = "applyChanges"
            /\ UNCHANGED <<attempts, lastAttempt, attempt, outcome>>
  /\ UNCHANGED <<ghvars, auxvars>>
  /\ UNCHANGED <<thrown, inflight, maxAttempts, toolInstalled, canBuild, issue, result,
                 validation, workingTree, baseline, prompt, modelCalls,
                 validateCalls, localCommits, pushed, prBodies>>

\* Line 115.
ApplyChangesStart ==
  /\ Start("applyChanges")
  /\ UNCHANGED <<ghvars, auxvars>>
  /\ UNCHANGED <<thrown, maxAttempts, attempt, toolInstalled, canBuild, issue, result,
                 validation, workingTree, baseline, prompt, modelCalls,
                 validateCalls, attempts, lastAttempt, outcome, localCommits, pushed, prBodies>>

ApplyChangesSettles ==
  /\ pc = Await("applyChanges")
  /\ "applyChanges" \in inflight
  /\ inflight' = inflight \ {"applyChanges"}
  /\ LET r == applyChanges(workingTree, Result.changes)
     IN /\ workingTree' = r.tree
        /\ pc' = IF r.threw THEN "threw" ELSE "checkCanBuild"
        /\ thrown' = IF r.threw THEN << "applyChanges" >> ELSE thrown
  /\ UNCHANGED <<ghvars, auxvars>>
  /\ UNCHANGED <<maxAttempts, attempt, toolInstalled, canBuild, issue, result,
                 validation, baseline, prompt, modelCalls,
                 validateCalls, attempts, lastAttempt, outcome, localCommits, pushed, prBodies>>

\* Lines 118-126.
CheckCanBuild ==
  /\ pc = "checkCanBuild"
  /\ IF skipsValidation(canBuild)
       THEN /\ outcome' = << Returned(TRUE, attempt, Result, <<>>) >>
            /\ attempts' = Append(attempts, "unverified")
            /\ lastAttempt' = << AttemptRecord(attempt, Result, <<>>) >>
            /\ pc' = "checkSuccess"
       ELSE /\ pc' = "validateBuild"
            /\ UNCHANGED <<outcome, attempts, lastAttempt>>
  /\ UNCHANGED <<ghvars, auxvars>>
  /\ UNCHANGED <<thrown, inflight, maxAttempts, attempt, toolInstalled, canBuild, issue, result,
                 validation, workingTree, baseline, prompt, modelCalls,
                 validateCalls, localCommits, pushed, prBodies>>

\* Line 129.
ValidateBuildStart ==
  /\ Start("validateBuild")
  /\ validateCalls' = validateCalls + 1
  /\ UNCHANGED <<ghvars, auxvars>>
  /\ UNCHANGED <<thrown, maxAttempts, attempt, toolInstalled, canBuild, issue, result,
                 validation, workingTree, baseline, prompt, modelCalls,
                 attempts, lastAttempt, outcome, localCommits, pushed, prBodies>>

ValidateBuildReturns ==
  /\ Settles("validateBuild")
  /\ \E v \in ValidationResults : validation' = <<v>>
  /\ pc' = "checkValidation"
  /\ UNCHANGED <<ghvars, auxvars>>
  /\ UNCHANGED <<thrown, maxAttempts, attempt, toolInstalled, canBuild, issue, result,
                 workingTree, baseline, prompt, modelCalls,
                 validateCalls, attempts, lastAttempt, outcome, localCommits, pushed, prBodies>>

\* Lines 131-163.
CheckValidation ==
  /\ pc = "checkValidation"
  /\ attempts' = Append(attempts, Ended(Result, validation, TRUE))
  /\ lastAttempt' = << AttemptRecord(attempt, Result, validation) >>
  /\ IF validation[1].success
       THEN /\ outcome' = << Returned(TRUE, attempt, Result, validation) >>
            /\ pc' = "checkSuccess"
            /\ UNCHANGED <<issue, attempt>>
       ELSE IF retriesAfterFailure(attempt, maxAttempts)
              THEN /\ issue' = withField(withField(issue, "buildErrors", validation[1].errors),
                                         "previousAttempt", Result)
                   /\ attempt' = nextAttempt(attempt)
                   /\ pc' = "loop"
                   /\ UNCHANGED outcome
              ELSE /\ outcome' = << Returned(FALSE, attempt, Result, validation) >>
                   /\ pc' = "checkSuccess"
                   /\ UNCHANGED <<issue, attempt>>
  /\ UNCHANGED <<ghvars, auxvars>>
  /\ UNCHANGED <<thrown, inflight, maxAttempts, toolInstalled, canBuild, result,
                 validation, workingTree, baseline, prompt, modelCalls,
                 validateCalls, localCommits, pushed, prBodies>>

\* Lines 66-68.
CheckSuccess ==
  /\ pc = "checkSuccess"
  /\ pc' = IF throwsOnFailure(outcome[1]) THEN "threw" ELSE "commitChanges"
  /\ thrown' = IF throwsOnFailure(outcome[1]) THEN << "Failed to implement" >> ELSE thrown
  /\ UNCHANGED <<ghvars, auxvars>>
  /\ UNCHANGED <<inflight, maxAttempts, attempt, toolInstalled, canBuild, issue, result,
                 validation, workingTree, baseline, prompt, modelCalls,
                 validateCalls, attempts, lastAttempt, outcome, localCommits, pushed, prBodies>>

\* Lines 71 and 225-260: git status, git add ., git commit.
CommitChangesStart ==
  /\ Start("commitChanges")
  /\ UNCHANGED <<ghvars, auxvars>>
  /\ UNCHANGED <<thrown, maxAttempts, attempt, toolInstalled, canBuild, issue, result,
                 validation, workingTree, baseline, prompt, modelCalls,
                 validateCalls, attempts, lastAttempt, outcome, localCommits, pushed, prBodies>>

CommitChangesReturns ==
  /\ Settles("commitChanges")
  /\ localCommits' =
       IF workingTree = headTree THEN localCommits
       ELSE Append(localCommits, [tree |-> workingTree,
                                  summary |-> outcome[1].result.summary,
                                  attempts |-> outcome[1].attempts])
  /\ pc' = "pushBranch"
  /\ UNCHANGED <<ghvars, auxvars>>
  /\ UNCHANGED <<thrown, maxAttempts, attempt, toolInstalled, canBuild, issue, result,
                 validation, workingTree, baseline, prompt, modelCalls,
                 validateCalls, attempts, lastAttempt, outcome, pushed, prBodies>>

\* Lines 74 and 265-273.
PushBranchStart ==
  /\ Start("pushBranch")
  /\ UNCHANGED <<ghvars, auxvars>>
  /\ UNCHANGED <<thrown, maxAttempts, attempt, toolInstalled, canBuild, issue, result,
                 validation, workingTree, baseline, prompt, modelCalls,
                 validateCalls, attempts, lastAttempt, outcome, localCommits, pushed, prBodies>>

PushBranchReturns ==
  /\ Settles("pushBranch")
  /\ pushed' = Append(pushed, headTree)
  /\ pc' = "createPullRequest"
  /\ UNCHANGED <<ghvars, auxvars>>
  /\ UNCHANGED <<thrown, maxAttempts, attempt, toolInstalled, canBuild, issue, result,
                 validation, workingTree, baseline, prompt, modelCalls,
                 validateCalls, attempts, lastAttempt, outcome, localCommits, prBodies>>

\* Lines 77 and 278-320.
CreatePullRequestStart ==
  /\ Start("createPullRequest")
  /\ UNCHANGED <<ghvars, auxvars>>
  /\ UNCHANGED <<thrown, maxAttempts, attempt, toolInstalled, canBuild, issue, result,
                 validation, workingTree, baseline, prompt, modelCalls,
                 validateCalls, attempts, lastAttempt, outcome, localCommits, pushed, prBodies>>

CreatePullRequestReturns ==
  /\ Settles("createPullRequest")
  /\ prBodies' = Append(prBodies, createPullRequestBody(outcome[1]))
  /\ pc' = "updateLinearIssue"
  /\ UNCHANGED <<ghvars, auxvars>>
  /\ UNCHANGED <<thrown, maxAttempts, attempt, toolInstalled, canBuild, issue, result,
                 validation, workingTree, baseline, prompt, modelCalls,
                 validateCalls, attempts, lastAttempt, outcome, localCommits, pushed>>

\* Lines 80 and 325-331: only logs.
UpdateLinearIssue ==
  /\ pc = "updateLinearIssue"
  /\ pc' = "done"
  /\ UNCHANGED <<ghvars, auxvars>>
  /\ UNCHANGED <<thrown, inflight, maxAttempts, attempt, toolInstalled, canBuild, issue, result,
                 validation, workingTree, baseline, prompt, modelCalls,
                 validateCalls, attempts, lastAttempt, outcome, localCommits, pushed, prBodies>>

\* An awaited collaborator call rejects: the error leaves implementWithValidation
\* and processIssue rethrows it (lines 86-89).
CollaboratorRejects ==
  /\ \E op \in inflight \cap Rejectable :
       /\ pc = op
       /\ inflight' = inflight \ {op}
       /\ thrown' = << op >>
       /\ pc' = onReject(op)
  /\ UNCHANGED <<ghvars, auxvars>>
  /\ UNCHANGED <<maxAttempts, attempt, toolInstalled, canBuild, issue, result,
                 validation, workingTree, baseline, prompt, modelCalls,
                 validateCalls, attempts, lastAttempt, outcome, localCommits, pushed, prBodies>>

\* The hosting side before any commitFiles call: one branch whose head
\* commit holds the tree `base`.
Branch == "feature"

HostingInit(base) ==
  /\ refs = [b \in {Branch} |-> 1]
  /\ commits = << [tree |-> 1, parents |-> <<>>] >>
  /\ trees = << base >>
  /\ blobs = {}
  /\ currentCommitSha = 0
  /\ currentTreeSha = 0
  /\ fileIdx = 1
  /\ tree = <<>>
  /\ newTreeSha = 0
  /\ newCommitSha = 0

Init ==
  /\ pc = "getLinearIssue"
  /\ inflight = {}
  /\ maxAttempts \in 1..MaxAttemptsBound
  /\ attempt = 0
  /\ toolInstalled \in BOOLEAN
  /\ canBuild = FALSE
  /\ issue \in { [identifier |-> "ISS-1", title |-> "T", priority |-> "2",
                  description |-> d] : d \in Descriptions }
  /\ result = <<>>
  /\ validation = <<>>
  /\ baseline \in Baselines
  /\ workingTree = baseline
  /\ prompt = {}
  /\ modelCalls = 0
  /\ validateCalls = 0
  /\ attempts = <<>>
  /\ lastAttempt = <<>>
  /\ outcome = <<>>
  /\ localCommits = <<>>
  /\ pushed = <<>>
  /\ prBodies = <<>>
  /\ thrown = <<>>
  /\ SvcIdle /\ ValIdle /\ CtxIdle /\ ParseIdle /\ MoreIdle
  /\ ghPc = "idle"
  /\ files = <<>>
  /\ HostingInit([p \in GhPaths |-> Absent])

Next ==
  \/ GetLinearIssueStart \/ GetLinearIssueReturns
  \/ LogIssueDetailsStart \/ LogIssueDetailsReturns
  \/ CreateBranchStart \/ CreateBranchReturns
  \/ IsXcodebuildAvailableStart \/ IsXcodebuildAvailableReturns
  \/ Loop
  \/ GenerateImplementationStart \/ GenerateImplementationReturns
  \/ CheckChanges
  \/ ApplyChangesStart \/ ApplyChangesSettles
  \/ CheckCanBuild
  \/ ValidateBuildStart \/ ValidateBuildReturns
  \/ CheckValidation
  \/ CheckSuccess
  \/ CommitChangesStart \/ CommitChangesReturns
  \/ PushBranchStart \/ PushBranchReturns
  \/ CreatePullRequestStart \/ CreatePullRequestReturns
  \/ UpdateLinearIssue
  \/ CollaboratorRejects

Spec == Init /\ [][Next]_vars

\* Every awaited call settles and the run keeps executing.
FairSpec == Spec /\ WF_vars(Next)

(***************************************************************************)
(* GitHubFileOperations.commitFiles: one call, each step one request to    *)
(* the hosting API, any of which can fail.                                 *)
(***************************************************************************)
\* Variant: a failed blob creation is logged and the loop goes on.
swallowBlobFailure(next) == next

\* Lines 172-175: a failed blob creation is logged and rethrown.
onBlobFailure(next) == "threw"

\* Variant: createTree without base_tree, the new tree holds the entries only.
entriesOnly(base, entries) ==
  [p \in GhPaths |->
     IF \E i \in DOMAIN entries : entries[i].path = p
       THEN (CHOOSE e \in Range(entries) : e.path = p).sha
       ELSE Absent]

\* createTree with base_tree: the base tree overridden at the entries' paths.
overlay(base, entries) ==
  [p \in GhPaths |->
     IF \E i \in DOMAIN entries : entries[i].path = p
       THEN LET last == CHOOSE i \in DOMAIN entries :
                          /\ entries[i].path = p
                          /\ \A j \in DOMAIN entries : entries[j].path = p => j <= i
            IN entries[last].sha
       ELSE base[p]]

\* Line 153: the loop over files, then createTree.
afterBlob(idx) == IF idx > Len(files) THEN "createTree" ELSE "createBlob"

\* Lines 134-140.
GetRef ==
  /\ ghPc = "getRef"
  /\ currentCommitSha' = refs[Branch]
  /\ ghPc' = "getCommit"
  /\ UNCHANGED <<files, refs, commits, trees, blobs, currentTreeSha, fileIdx, tree,
                 newTreeSha, newCommitSha>>
  /\ UNCHANGED <<v2vars, auxvars>>

\* Lines 143-153.
GetCommit ==
  /\ ghPc = "getCommit"
  /\ currentTreeSha' = commits[currentCommitSha].tree
  /\ ghPc' = afterBlob(fileIdx)
  /\ UNCHANGED <<files, refs, commits, trees, blobs, currentCommitSha, fileIdx, tree,
                 newTreeSha, newCommitSha>>
  /\ UNCHANGED <<v2vars, auxvars>>

\* Lines 153-171: the blob of files[fileIdx] is created and pushed on `tree`.
CreateBlob ==
  /\ ghPc = "createBlob"
  /\ blobs' = blobs \cup {files[fileIdx].content}
  /\ tree' = Append(tree, [path |-> files[fileIdx].path, sha |-> files[fileIdx].content])
  /\ fileIdx' = fileIdx + 1
  /\ ghPc' = afterBlob(fileIdx + 1)
  /\ UNCHANGED <<files, refs, commits, trees, currentCommitSha, currentTreeSha,
                 newTreeSha, newCommitSha>>
  /\ UNCHANGED <<v2vars, auxvars>>

\* Lines 157 and 172-175: createBlob rejects.
CreateBlobFails ==
  /\ ghPc = "createBlob"
  /\ ghPc' = onBlobFailure(afterBlob(fileIdx + 1))
  /\ fileIdx' = IF ghPc' = "threw" THEN fileIdx ELSE fileIdx + 1
  /\ UNCHANGED <<files, refs, commits, trees, blobs, currentCommitSha, currentTreeSha,
                 tree, newTreeSha, newCommitSha>>
  /\ UNCHANGED <<v2vars, auxvars>>

\* Lines 179-184.
CreateTree ==
  /\ ghPc = "createTree"
  /\ trees' = Append(trees, overlay(trees[currentTreeSha], tree))
  /\ newTreeSha' = Len(trees) + 1
  /\ ghPc' = "createCommit"
  /\ UNCHANGED <<files, refs, commits, blobs, currentCommitSha, currentTreeSha, fileIdx,
                 tree, newCommitSha>>
  /\ UNCHANGED <<v2vars, auxvars>>

\* Lines 187-193.
CreateCommit ==
  /\ ghPc = "createCommit"
  /\ commits' = Append(commits, [tree |-> newTreeSha, parents |-> <<currentCommitSha>>])
  /\ newCommitSha' = Len(commits) + 1
  /\ ghPc' = "updateRef"
  /\ UNCHANGED <<files, refs, trees, blobs, currentCommitSha, currentTreeSha, fileIdx,
                 tree, newTreeSha>>
  /\ UNCHANGED <<v2vars, auxvars>>

RECURSIVE isAncestorIn(_, _, _)
\* In the commit objects cs, commit a is commit b or is reached from b
\* through first parents.
isAncestorIn(cs, a, b) ==
  \/ a = b
  \/ cs[b].parents # <<>> /\ isAncestorIn(cs, a, cs[b].parents[1])

isAncestor(a, b) == isAncestorIn(commits, a, b)

\* Variant: the reference is updated with force: true.
forcesUpdate(head, sha) == TRUE

\* Lines 196-201 pass no force flag: the hosting service moves the
\* reference only when the update is a fast-forward of its present head.
acceptsUpdate(head, sha) == isAncestor(head, sha)

\* Lines 196-203.
UpdateRef ==
  /\ ghPc = "updateRef"
  /\ IF acceptsUpdate(refs[Branch], newCommitSha)
       THEN refs' = [refs EXCEPT ![Branch] = newCommitSha] /\ ghPc' = "done"
       ELSE UNCHANGED refs /\ ghPc' = "threw"
  /\ UNCHANGED <<files, commits, trees, blobs, currentCommitSha, currentTreeSha, fileIdx,
                 tree, newTreeSha, newCommitSha>>
  /\ UNCHANGED <<v2vars, auxvars>>

\* getRef, getCommit, createTree, createCommit or updateRef rejects: the
\* error leaves commitFiles.
RequestFails ==
  /\ ghPc \in {"getRef", "getCommit", "createTree", "createCommit", "updateRef"}
  /\ ghPc' = "threw"
  /\ UNCHANGED <<files, refs, commits, trees, blobs, currentCommitSha, currentTreeSha,
                 fileIdx, tree, newTreeSha, newCommitSha>>
  /\ UNCHANGED <<v2vars, auxvars>>

InitCommit ==
  /\ pc = "idle"
  /\ inflight = {}
  /\ maxAttempts = 1
  /\ attempt = 0
  /\ toolInstalled = FALSE
  /\ canBuild = FALSE
  /\ issue = [identifier |-> "ISS-1", title |-> "T", priority |-> "2",
              description |-> "Add a feature"]
  /\ result = <<>>
  /\ validation = <<>>
  /\ baseline = [p \in Paths |-> Absent]
  /\ workingTree = baseline
  /\ prompt = {}
  /\ modelCalls = 0
  /\ validateCalls = 0
  /\ attempts = <<>>
  /\ lastAttempt = <<>>
  /\ outcome = <<>>
  /\ localCommits = <<>>
  /\ pushed = <<>>
  /\ prBodies = <<>>
  /\ thrown = <<>>
  /\ SvcIdle /\ ValIdle /\ CtxIdle /\ ParseIdle /\ MoreIdle
  /\ ghPc = "getRef"
  /\ files \in GitHubFileLists
  /\ \E base \in GhBaseTrees : HostingInit(base)

NextCommit ==
  \/ GetRef
  \/ GetCommit
  \/ CreateBlob
  \/ CreateBlobFails
  \/ CreateTree
  \/ CreateCommit
  \/ UpdateRef
  \/ RequestFails

SpecCommit == InitCommit /\ [][NextCommit]_vars

\* The tree at the head of the branch, and the tree it had before the call.
BranchTree == trees[commits[refs[Branch]].tree]

BaseTree == trees[1]

AllPresent == \A i \in DOMAIN files : BranchTree[files[i].path] = files[i].content

NonePresent == BranchTree = BaseTree

\* C10: with a change set of two or more files and a failure at any step
\* of commitFiles, the branch holds either every file of the change set at
\* its new content or none of them, never a strict subset; a call that
\* returned left all of them, a call that threw left none.
C10_AtomicCommit ==
  Len(files) >= 2 =>
    /\ AllPresent \/ NonePresent
    /\ ghPc = "done" => AllPresent
    /\ ghPc # "done" => NonePresent

\* A failure while the second blob is created.
C10_Witness ==
  /\ Len(files) >= 2
  /\ ghPc = "threw"
  /\ Len(tree) = 1
  /\ blobs # {}
  /\ newTreeSha = 0


(***************************************************************************)
(* Properties of the retry orchestrator.                                   *)
(***************************************************************************)
Last(s) == s[Len(s)]

Accepted == outcome # <<>> /\ outcome[1].success

Exhausted == outcome # <<>> /\ ~outcome[1].success

\* The change set of the current attempt has been applied (line 115 returned)
\* and the attempt has not finished.
Applied == pc \in {"checkCanBuild", "validateBuild", "checkValidation"}

PreviousFailed == attempts # <<>> /\ Last(attempts) = "failed"

PreviousEmpty == attempts # <<>> /\ Last(attempts) = "empty"

Contains(p, text) == \E seg \in p : seg.text = text

ContainsFile(p, change) ==
  \E seg \in p : seg.path = change.filePath /\ seg.text = change.content

\* C1: a run of implementWithValidation with maxAttempts = k issues at most
\* k model calls, whatever the parser and the validator return.
C1_BudgetBound == modelCalls <= maxAttempts

C1_Witness ==
  /\ maxAttempts = MaxAttemptsBound
  /\ modelCalls = maxAttempts
  /\ Exhausted
  /\ Last(attempts) = "failed"

\* C2: when the collaborators return, the orchestrator terminates by
\* returning a result (Accepted or Exhausted); it never reaches the throw
\* after the loop.  A rejected collaborator call is the only other ending.
C2_Terminates ==
  /\ [](pc # "postLoopThrow")
  /\ <>(outcome # <<>> \/ pc = "threw")
  /\ [](outcome # <<>> => outcome[1].attempts \in 1..maxAttempts)

C2_Witness ==
  /\ Exhausted
  /\ maxAttempts = MaxAttemptsBound
  /\ outcome[1].attempts = maxAttempts
  /\ Len(outcome[1].result.changes) = 0

\* C3: when attempt n failed validation and attempt n+1 has applied its
\* change set, the working tree equals the baseline with attempt n+1's
\* change set only, and so does every tree published afterwards.
C3_NoCompounding ==
  /\ (Applied /\ PreviousFailed) =>
       workingTree = applyChanges(baseline, Result.changes).tree
  /\ \A i \in DOMAIN pushed :
       pushed[i] = applyChanges(baseline, outcome[1].result.changes).tree

\* C4: after attempt n failed validation with n < maxAttempts, the prompt of
\* the model call of attempt n+1 contains attempt n's emitted files and
\* attempt n's error list.
C4_RepairPrompt ==
  ("generateImplementation" \in inflight /\ PreviousFailed) =>
     /\ \A i \in DOMAIN lastAttempt[1].changeSet :
          ContainsFile(prompt, lastAttempt[1].changeSet[i])
     /\ \A i \in DOMAIN lastAttempt[1].validation[1].errors :
          Contains(prompt, lastAttempt[1].validation[1].errors[i])

RepairKinds == {"Build error", "Previous attempt"}

NoRepairContext(p) == \A seg \in p : seg.kind \notin RepairKinds

\* The step that finds the change set of the current attempt empty.
FindsEmpty == pc = "checkChanges" /\ Len(Result.changes) = 0

\* C5: an empty change set on attempt n applies nothing and runs no
\* validation for that attempt; with n = maxAttempts the result is
\* Exhausted, otherwise attempt n+1 starts and its prompt carries no repair
\* context.
C5_EmptyChangeSet ==
  /\ [][FindsEmpty =>
          /\ workingTree' = workingTree
          /\ validateCalls' = validateCalls
          /\ pc' \notin {"applyChanges", "validateBuild"}
          /\ IF attempt = maxAttempts
               THEN /\ outcome' # <<>>
                    /\ ~outcome'[1].success
                    /\ outcome'[1].attempts = attempt
               ELSE /\ outcome' = <<>>
                    /\ attempt' = attempt + 1
                    /\ pc' = "loop"]_vars
  /\ [](("generateImplementation" \in inflight /\ PreviousEmpty) =>
          (attempt = Len(attempts) + 1 /\ NoRepairContext(prompt)))

\* An empty attempt that follows a failed one, and the next model call.
C5_Witness ==
  /\ "generateImplementation" \in inflight
  /\ Len(attempts) = 2
  /\ attempts[1] = "failed"
  /\ attempts[2] = "empty"
  /\ "buildErrors" \in DOMAIN issue

\* C6: without the validation tool, the first attempt with a non-empty
\* change set is applied and accepted at that attempt number, and
\* validateBuild is never invoked in the run.
C6_UnavailableAccepts ==
  ~toolInstalled =>
    /\ validateCalls = 0
    /\ pc \notin {"validateBuild", "checkValidation"}
    /\ \A i \in DOMAIN attempts :
         /\ attempts[i] \in {"empty", "unverified"}
         /\ attempts[i] = "unverified" =>
              /\ i = Len(attempts)
              /\ Accepted
              /\ outcome[1].attempts = i
              /\ outcome[1].result.changes = lastAttempt[1].changeSet
              /\ workingTree = applyChanges(baseline, outcome[1].result.changes).tree
    /\ Accepted => Last(attempts) = "unverified"

C6_Witness ==
  /\ ~toolInstalled
  /\ Accepted
  /\ outcome[1].attempts = 2
  /\ attempts = <<"empty", "unverified">>
  /\ pc = "done"

\* C7: a run accepted without validation carries no successful
\* ValidationResult and its pull-request body never says "Build validation
\* passed"; a run accepted after a successful build always says so.
C7_UnverifiedNotPassed ==
  /\ (Accepted /\ ~canBuild) =>
        /\ outcome[1].validation = <<>>
        /\ \A i \in DOMAIN prBodies :
             prBodies[i].validation # "Build validation passed"
  /\ (Accepted /\ canBuild) =>
        /\ outcome[1].validation # <<>>
        /\ outcome[1].validation[1].success
        /\ \A i \in DOMAIN prBodies :
             prBodies[i].validation = "Build validation passed"
  /\ prBodies # <<>> => Accepted

C7_Witness ==
  /\ ~canBuild
  /\ Accepted
  /\ prBodies # <<>>

\* C8: in a run whose retry loop ends Exhausted there is no commit, no push
\* and no pull request.
C8_OnlyAcceptedPublished ==
  Exhausted =>
    /\ localCommits = <<>>
    /\ pushed = <<>>
    /\ prBodies = <<>>
    /\ pc \in {"checkSuccess", "threw"}
    /\ inflight = {}

C8_Witness ==
  /\ Exhausted
  /\ pc = "threw"
  /\ workingTree # baseline

\* C9: attempts are strictly sequential: at most one awaited step is in
\* progress at any time, and the model call of attempt n+1 is in progress
\* only after attempts 1..n have finished.
C9_Sequential ==
  /\ Cardinality(inflight) <= 1
  /\ "generateImplementation" \in inflight =>
       /\ Len(attempts) = attempt - 1
       /\ modelCalls = attempt
  /\ (inflight \cap {"applyChanges", "validateBuild"} # {}) =>
       /\ Len(attempts) = attempt - 1
       /\ modelCalls = attempt

C9_Witness ==
  /\ inflight = {"generateImplementation"}
  /\ attempt = 2
  /\ attempts = <<"failed">>

\* The finished attempts: the first n - 1 failed their build, the n-th ended as `last`.
FailedThen(n, last) ==
  /\ Len(attempts) = n
  /\ attempts[n] = last
  /\ \A i \in 1..(n - 1) : attempts[i] = "failed"

\* C11: when attempts 1..m-1 fail validation and attempt m validates
\* successfully, the run is Accepted, reports attempts = m, has made m model
\* calls, and its result carries the change set and the validation of attempt m.
C11_AcceptedAtM ==
  \A m \in 1..maxAttempts :
    FailedThen(m, "passed") =>
      /\ Accepted
      /\ outcome[1].attempts = m
      /\ modelCalls = m
      /\ lastAttempt[1].attemptNumber = m
      /\ outcome[1].result.changes = lastAttempt[1].changeSet
      /\ outcome[1].validation = lastAttempt[1].validation

\* Accepted at attempt 2 with a change set unlike the one attempt 1 produced.
C11_Witness ==
  /\ FailedThen(2, "passed")
  /\ pc = "done"
  /\ outcome[1].attempts = 2
  /\ issue.previousAttempt.changes # outcome[1].result.changes

\* C12: when all k = maxAttempts attempts produce a change set that fails
\* validation, the run is Exhausted, reports attempts = k, and its result
\* carries the change set of attempt k and that attempt's error list.
C12_ExhaustedAtK ==
  FailedThen(maxAttempts, "failed") =>
    /\ Exhausted
    /\ outcome[1].attempts = maxAttempts
    /\ modelCalls = maxAttempts
    /\ lastAttempt[1].attemptNumber = maxAttempts
    /\ outcome[1].result.changes = lastAttempt[1].changeSet
    /\ outcome[1].validation # <<>>
    /\ outcome[1].validation[1].errors = lastAttempt[1].validation[1].errors

\* Three failed builds with maxAttempts = 3; the last change set differs
\* from the one before it and the run has rejected.
C12_Witness ==
  /\ maxAttempts = 3
  /\ FailedThen(3, "failed")
  /\ pc = "threw"
  /\ Exhausted
  /\ issue.previousAttempt.changes # outcome[1].result.changes
  /\ outcome[1].validation[1].errors # <<>>

\* C18: once a collaborator call of processIssue has failed (issue fetch,
\* branch creation, model call, commit, push or pull-request creation) the
\* run has rejected with that error, and from then on it makes no model
\* call and publishes nothing: no commit, no push, no pull request.
C18_FailureSurfaced ==
  [][ /\ (thrown = <<>> /\ thrown' # <<>>) =>
           /\ pc' = "threw"
           /\ inflight' = {}
           /\ pc \in Rejectable \ {"getLinearIssue"} => thrown' = << pc >>
           /\ UNCHANGED <<modelCalls, localCommits, pushed, prBodies>>
      /\ thrown # <<>> =>
           /\ pc' = "threw"
           /\ UNCHANGED <<thrown, modelCalls, localCommits, pushed, prBodies>> ]_vars

\* The commit failed after an accepted attempt: the run has rejected with
\* that error and nothing is pushed or opened.
C18_Witness ==
  /\ thrown = << "commitChanges" >>
  /\ pc = "threw"
  /\ Accepted
  /\ modelCalls >= 1
  /\ pushed = <<>>
  /\ prBodies = <<>>

(***************************************************************************)
(* BuildValidator.validateBuild: one xcodebuild invocation through exec    *)
(* and the classification of what it printed.  The output is a sequence of *)
(* lines; a line is one of the shapes the regular expressions tell apart.  *)
(***************************************************************************)
MaxLines == 3

\* validator.ts line 154: errors.slice(0, 10); line 173: warnings.slice(0, 5).
ErrorCap == 10

WarningCap == 5

Line(k, f, m) == [kind |-> k, file |-> f, message |-> m]

\* "** BUILD SUCCEEDED **", "A.swift:3:5: error: bad", "A.swift:3:5: warning: old",
\* "** BUILD FAILED **", "fatal error: bad", "fatal error: boom", and a line
\* none of the patterns matches ("error: no such module").
OutputLines ==
  { Line("succeeded", "", ""), Line("error", "A.swift:3", "bad"),
    Line("warning", "A.swift:3", "old"), Line("failed", "", "** BUILD FAILED **"),
    Line("fatal", "", "bad"), Line("fatal", "", "boom"), Line("plain", "", "") }

Outputs == UNION { [1..n -> OutputLines] : n \in 0..MaxLines }

\* How the exec promise settles: resolved (exit status 0), or rejected
\* because of a non-zero exit status, the 120 s timeout, or a shell that
\* could not be started (nothing was printed then).
ExecResults ==
  { [exit |-> e, output |-> o] : e \in {"zero", "nonzero", "timeout"}, o \in Outputs }
    \cup { [exit |-> "spawnError", output |-> <<>>] }

\* error.message of the rejected exec promise.
errorMessage(exit) ==
  CASE exit = "nonzero" -> "Command failed"
    [] exit = "timeout" -> "Command failed (killed)"
    [] OTHER -> "spawn ENOENT"

Take(s, n) == IF Len(s) <= n THEN s ELSE SubSeq(s, 1, n)

\* An extracted entry: "file:line - message" or the bare message.
Entry(f, m) == [file |-> f, message |-> m]

\* e.includes(errorMsg) on the entries of this model: an entry contains a
\* message exactly when it was built from it.
includes(e, m) == e.message = m

RECURSIVE located(_, _, _)
\* The first loop of extractErrors (lines 135-143) and the loop of
\* extractWarnings (lines 163-172), over lines of kind k.
located(output, k, i) ==
  IF i > Len(output) THEN <<>>
  ELSE IF output[i].kind = k
         THEN << Entry(output[i].file, output[i].message) >> \o located(output, k, i + 1)
         ELSE located(output, k, i + 1)

RECURSIVE general(_, _, _)
\* The second loop of extractErrors (lines 146-152), adding to `errors`.
general(output, errors, i) ==
  IF i > Len(output) THEN errors
  ELSE IF /\ output[i].kind \in {"failed", "fatal"}
          /\ ~ \E j \in DOMAIN errors : includes(errors[j], output[i].message)
         THEN general(output, Append(errors, Entry("", output[i].message)), i + 1)
         ELSE general(output, errors, i + 1)

extractErrors(output) == Take(general(output, located(output, "error", 1), 1), ErrorCap)

extractWarnings(output) == Take(located(output, "warning", 1), WarningCap)

\* output.includes('BUILD SUCCEEDED'), line 38.
includesBuildSucceeded(output) == \E i \in DOMAIN output : output[i].kind = "succeeded"

\* Variant: the catch block returns the extracted errors as they are.
extractedOnly(errors, message) == errors

\* Line 64: errors.length > 0 ? errors : [error.message].
catchErrors(errors, message) ==
  IF Len(errors) > 0 THEN errors ELSE << Entry("", message) >>

ValidationResult(s, e, w, o) == [success |-> s, errors |-> e, warnings |-> w, output |-> o]

validateBuild(exec) ==
  IF exec.exit = "zero"
    THEN IF includesBuildSucceeded(exec.output)
           THEN ValidationResult(TRUE, <<>>, extractWarnings(exec.output), exec.output)
           ELSE ValidationResult(FALSE, extractErrors(exec.output),
                                 extractWarnings(exec.output), exec.output)
    ELSE ValidationResult(FALSE,
                          catchErrors(extractErrors(exec.output), errorMessage(exec.exit)),
                          extractWarnings(exec.output), exec.output)

\* Line 27: the awaited exec settles one way or another.
ExecSettles ==
  /\ execResult = <<>>
  /\ \E e \in ExecResults : execResult' = << e >>
  /\ UNCHANGED <<buildValidation, v2vars, ghvars, morevars, svcvars, ctxvars, parsevars>>

\* Lines 35-68: both branches end in a return statement.
ValidatorReturns ==
  /\ execResult # <<>>
  /\ buildValidation = <<>>
  /\ buildValidation' = << validateBuild(execResult[1]) >>
  /\ UNCHANGED <<execResult, v2vars, ghvars, morevars, svcvars, ctxvars, parsevars>>

\* No processIssue run and no commitFiles call.
V2Idle ==
  /\ pc = "idle"
  /\ inflight = {}
  /\ maxAttempts = 1
  /\ attempt = 0
  /\ toolInstalled = FALSE
  /\ canBuild = FALSE
  /\ issue = [identifier |-> "ISS-1", title |-> "T", priority |-> "2",
              description |-> "Add a feature"]
  /\ result = <<>>
  /\ validation = <<>>
  /\ baseline = [p \in Paths |-> Absent]
  /\ workingTree = baseline
  /\ prompt = {}
  /\ modelCalls = 0
  /\ validateCalls = 0
  /\ attempts = <<>>
  /\ lastAttempt = <<>>
  /\ outcome = <<>>
  /\ localCommits = <<>>
  /\ pushed = <<>>
  /\ prBodies = <<>>
  /\ thrown = <<>>

GhIdle ==
  /\ ghPc = "idle"
  /\ files = <<>>
  /\ HostingInit([p \in GhPaths |-> Absent])

InitValidate ==
  /\ execResult = <<>>
  /\ buildValidation = <<>>
  /\ V2Idle /\ GhIdle /\ MoreIdle /\ SvcIdle /\ CtxIdle /\ ParseIdle

NextValidate == ExecSettles \/ ValidatorReturns

SpecValidate == InitValidate /\ [][NextValidate]_vars

Exec == execResult[1]

BuildValidation == buildValidation[1]

\* The output holds a line a reader takes for an error report.
ErrorLinePrinted(output) ==
  \E i \in DOMAIN output : output[i].kind \in {"error", "failed", "fatal"}

\* C15: validateBuild reports success whenever the output contains the
\* success marker, and also whenever the tool exits without failure and no
\* error line is extracted from its output, marker or not.
C15_SuccessClassification ==
  buildValidation # <<>> =>
    LET marked == includesBuildSucceeded(Exec.output)
        clean == Exec.exit = "zero" /\ extractErrors(Exec.output) = <<>>
    IN (marked \/ clean) => BuildValidation.success

\* C16: every ValidationResult with success = false carries at least one
\* error entry.
C16_FailureCarriesError ==
  (buildValidation # <<>> /\ ~BuildValidation.success) => Len(BuildValidation.errors) >= 1

\* C17: validateBuild always returns a ValidationResult once the tool
\* invocation has settled, whichever way it settled; when the invocation
\* failed (non-zero exit, timeout, shell not started) the result has
\* success = false, and if no error line was printed its error list is
\* exactly the one synthetic entry made from the failure's message.
C17_AlwaysReturns ==
  /\ (execResult # <<>> /\ buildValidation = <<>>) => ENABLED ValidatorReturns
  /\ buildValidation # <<>> =>
       /\ BuildValidation.success \in BOOLEAN
       /\ BuildValidation.output = Exec.output
       /\ Exec.exit # "zero" =>
            /\ ~BuildValidation.success
            /\ Len(BuildValidation.errors) >= 1
            /\ ~ErrorLinePrinted(Exec.output) =>
                 BuildValidation.errors = << Entry("", errorMessage(Exec.exit)) >>

\* The build timed out after printing only a warning.
C17_Witness ==
  /\ buildValidation # <<>>
  /\ Exec.exit = "timeout"
  /\ Len(Exec.output) = 1 /\ Exec.output[1].kind = "warning"
  /\ BuildValidation.errors = << Entry("", "Command failed (killed)") >>
  /\ Len(BuildValidation.warnings) = 1

(***************************************************************************)
(* The HTTP service (index.ts) deployed with AUTOMATION_VERSION=v2: the    *)
(* Linear webhook and the manual trigger start processIssue on the one     *)
(* ClaudeAutomationV2 instance, whose runs all work in the one local       *)
(* repository under repoPath.  A run is followed through its git steps     *)
(* with one model call, whose change set is applied and then accepted or   *)
(* refused by the build (part_004 lines 101-143).                          *)
(***************************************************************************)
MaxRuns == 2

Issues == {"ISS-1", "ISS-2"}

MainTree == [p \in Paths |-> Absent]

\* issue.branchName: one branch per issue.
branchName(issueId) == issueId

\* The change set the model returns for an issue.
generated(issueId) ==
  IF issueId = "ISS-1" THEN << Change("A.swift", "create", "a1") >>
                       ELSE << Change("B.swift", "create", "b1") >>

\* payload.data.state?.name?.toLowerCase(), part_002 line 50.
toLowerCase(name) == IF name = "In Progress" THEN "in progress" ELSE name

\* An event as Linear sends it: data.state is the state the issue is in
\* after the change, and moved tells whether the change was a change of
\* state (the payload type of part_002 lines 3-16 carries no such field).
Payloads ==
  [type : {"Issue", "Comment"}, action : {"update", "create"},
   stateName : {"In Progress", "in progress", "Todo", Absent}, identifier : Issues,
   moved : BOOLEAN]

\* part_002 lines 43-52.
shouldProcessWebhook(payload) ==
  /\ payload.type = "Issue"
  /\ payload.action = "update"
  /\ toLowerCase(payload.stateName) = "in progress"

\* The linear-signature header against the HMAC of the body: equal, a
\* different digest of the same length, a value of another length, or no
\* header at all.
Signatures == {"valid", "wrong", "wrongLength", "missing"}

\* part_002 lines 22-37: timingSafeEqual throws on buffers of different
\* length and Buffer.from throws on undefined.
acceptsMissingSignature(signature) ==
  CASE signature \in {"valid", "missing"} -> "true"
    [] signature = "wrong" -> "false"
    [] OTHER -> "throws"

verifySignature(signature) ==
  CASE signature = "valid" -> "true"
    [] signature = "wrong" -> "false"
    [] OTHER -> "throws"

\* A run of processIssue; request is the webhook request that started it,
\* <<>> for a manual trigger.
Run(id, src, req) ==
  [issueId |-> id, source |-> src, request |-> req, pc |-> "getLinearIssue", changes |-> <<>>]

\* automation.processIssue(issueId).catch(...), index.ts lines 73-76 and 98-101.
startRun(id, src, req) == Append(runs, Run(id, src, req))

\* index.ts lines 42-84.
LinearWebhook ==
  /\ Len(runs) < MaxRuns
  /\ \E payload \in Payloads, signature \in Signatures :
       LET verdict == IF env.secretSet THEN verifySignature(signature) ELSE "true"
       IN IF verdict = "throws" THEN httpStatus' = 500 /\ UNCHANGED runs
          ELSE IF verdict = "false" THEN httpStatus' = 401 /\ UNCHANGED runs
          ELSE IF shouldProcessWebhook(payload)
                 THEN /\ httpStatus' = 202
                      /\ runs' = startRun(payload.identifier, "webhook",
                                      << [signature |-> signature,
                                          type |-> payload.type,
                                          action |-> payload.action,
                                          stateName |-> payload.stateName,
                                          moved |-> payload.moved] >>)
                 ELSE httpStatus' = 200 /\ UNCHANGED runs
  /\ UNCHANGED <<repo, env, v2vars, ghvars, morevars, valvars, ctxvars, parsevars>>

\* index.ts lines 87-102.
ManualTrigger ==
  /\ Len(runs) < MaxRuns
  /\ \E issueId \in Issues :
       /\ httpStatus' = 202
       /\ runs' = startRun(issueId, "trigger", <<>>)
  /\ UNCHANGED <<repo, env, v2vars, ghvars, morevars, valvars, ctxvars, parsevars>>

At(i, step) == i \in DOMAIN runs /\ runs[i].pc = step

goto(i, step) == [runs EXCEPT ![i].pc = step]

svcFrame == <<httpStatus, env, v2vars, ghvars, morevars, valvars, ctxvars, parsevars>>

\* part_004 lines 52-57.
RunGetLinearIssue ==
  \E i \in DOMAIN runs :
    /\ At(i, "getLinearIssue")
    /\ runs' = goto(i, "createBranch")
    /\ UNCHANGED repo
    /\ UNCHANGED svcFrame

\* git checkout <target> in a working tree with uncommitted changes: a
\* path that differs between the two heads is rewritten when it is clean
\* and makes the checkout fail when it is not; every other path keeps its
\* local content.
checkout(target) ==
  LET cur == repo.local[repo.head]
      tgt == repo.local[target]
      blocked == \E p \in Paths : cur[p] # tgt[p] /\ repo.wt[p] # cur[p]
  IN [failed |-> blocked,
      wt |-> [p \in Paths |-> IF cur[p] # tgt[p] THEN tgt[p] ELSE repo.wt[p]]]

\* part_004 lines 194-220: checkout main, pull, delete the branch locally
\* and on origin if it exists, checkout -b.
RunCreateBranch ==
  \E i \in DOMAIN runs :
    /\ At(i, "createBranch")
    /\ LET b == branchName(runs[i].issueId)
           co == checkout("main")
       IN IF co.failed
            THEN runs' = goto(i, "rejected") /\ UNCHANGED repo
            ELSE /\ runs' = goto(i, "generateImplementation")
                 /\ repo' = [repo EXCEPT
                       !.wt = co.wt,
                       !.head = b,
                       !.local = [repo.local EXCEPT ![b] = repo.local["main"]],
                       !.remote = IF repo.local[b] # <<>>
                                    THEN [repo.remote EXCEPT ![b] = <<>>]
                                    ELSE repo.remote]
    /\ UNCHANGED svcFrame

\* part_004 line 101: the model call of the run's one attempt.
RunGenerateImplementation ==
  \E i \in DOMAIN runs :
    /\ At(i, "generateImplementation")
    /\ runs' = [runs EXCEPT ![i].pc = "applyChanges",
                            ![i].changes = generated(runs[i].issueId)]
    /\ UNCHANGED repo
    /\ UNCHANGED svcFrame

\* part_004 line 115.
RunApplyChanges ==
  \E i \in DOMAIN runs :
    /\ At(i, "applyChanges")
    /\ LET r == applyChanges(repo.wt, runs[i].changes)
       IN /\ repo' = [repo EXCEPT !.wt = r.tree]
          /\ runs' = goto(i, IF r.threw THEN "rejected" ELSE "validateBuild")
    /\ UNCHANGED svcFrame

\* part_004 lines 118-143 and 63-68: the implementation is accepted, without
\* a build or after a build that passed, or the build fails on the last
\* attempt and processIssue throws; the files stay as applyChanges left them.
RunValidateBuild ==
  \E i \in DOMAIN runs :
    /\ At(i, "validateBuild")
    /\ \/ runs' = goto(i, "commitChanges")
       \/ runs' = goto(i, "failed")
    /\ UNCHANGED repo
    /\ UNCHANGED svcFrame

\* part_004 lines 225-260: git status --porcelain, then git add . and
\* git commit on whatever branch is checked out.
RunCommitChanges ==
  \E i \in DOMAIN runs :
    /\ At(i, "commitChanges")
    /\ runs' = goto(i, "pushBranch")
    /\ repo' = IF repo.wt = repo.local[repo.head] THEN repo
               ELSE [repo EXCEPT !.local = [repo.local EXCEPT ![repo.head] = repo.wt]]
    /\ UNCHANGED svcFrame

\* part_004 lines 265-273: git push -u origin <branchName>.
RunPushBranch ==
  \E i \in DOMAIN runs :
    /\ At(i, "pushBranch")
    /\ LET b == branchName(runs[i].issueId)
       IN /\ runs' = goto(i, "createPullRequest")
          /\ repo' = [repo EXCEPT !.remote = [repo.remote EXCEPT ![b] = repo.local[b]]]
    /\ UNCHANGED svcFrame

\* part_004 lines 77-80: the pull request and the Linear comment.
RunCreatePullRequest ==
  \E i \in DOMAIN runs :
    /\ At(i, "createPullRequest")
    /\ runs' = goto(i, "done")
    /\ UNCHANGED repo
    /\ UNCHANGED svcFrame

Branches == {"main"} \cup { branchName(id) : id \in Issues }

InitService ==
  /\ runs = <<>>
  /\ httpStatus = 0
  /\ env \in [secretSet : BOOLEAN, automationVersion : {"v2"}]
  /\ repo = [wt |-> MainTree, head |-> "main",
             local |-> [b \in Branches |-> IF b = "main" THEN MainTree ELSE <<>>],
             remote |-> [b \in Branches |-> IF b = "main" THEN MainTree ELSE <<>>]]
  /\ V2Idle /\ GhIdle /\ MoreIdle /\ ValIdle /\ CtxIdle /\ ParseIdle

NextService ==
  \/ LinearWebhook \/ ManualTrigger
  \/ RunGetLinearIssue \/ RunCreateBranch \/ RunGenerateImplementation
  \/ RunApplyChanges \/ RunValidateBuild \/ RunCommitChanges \/ RunPushBranch \/ RunCreatePullRequest

SpecService == InitService /\ [][NextService]_vars

InFlight(i) == runs[i].pc \notin {"done", "rejected", "failed"}

\* C13: the service never has two pipeline runs in flight at the same time
\* that target the same issue (and so the same branch), whatever the
\* sequence of webhook deliveries and manual triggers.
C13_ExclusiveOwnership ==
  \A i, j \in DOMAIN runs :
    (i # j /\ InFlight(i) /\ InFlight(j)) => runs[i].issueId # runs[j].issueId

\* The paths a run's own change set touches.
touched(i) == { runs[i].changes[k].filePath : k \in DOMAIN runs[i].changes }

\* C14: when runs for two different issues execute concurrently, the tree
\* a run has published on its branch contains no file edit produced by the
\* other run: outside the run's own paths it equals main.
C14_NoInterference ==
  \A i, j \in DOMAIN runs :
    (runs[i].issueId # runs[j].issueId /\ runs[i].pc = "done") =>
      \A p \in touched(j) \ touched(i) :
        repo.remote[branchName(runs[i].issueId)][p] = MainTree[p]

(***************************************************************************)
(* Context assembly with failing collaborators: CodeGenerator.gatherContext *)
(* over the local file system and CloudCodeGenerator.gatherContextFromGitHub *)
(* over the GitHub API, each followed by generateWithClaude.               *)
(***************************************************************************)
\* part_003 line 77: relevantFiles.slice(0, 3).
ExtraFilesLimit == 3

\* cloud-code-generator.ts line 71: keywords.slice(0, 2); line 74: foundFiles.slice(0, 2).
KeywordLimit == 2

FoundLimit == 2

\* A file is there and readable, not there, or there but the read fails
\* (EACCES locally, a 403 or 500 from the API).
FileStatuses == {"ok", "missing", "unreadable"}

\* Arrays of distinct paths.
PathLists == { <<>>, <<"A.swift">>, <<"B.swift">>, <<"A.swift", "B.swift">> }

\* One file search: it fails, or it returns some paths.
SearchOutcomes == { [failed |-> f, found |-> l] : f \in BOOLEAN, l \in PathLists }

CtxEnvs ==
  { [variant |-> v, mentioned |-> m, status |-> st, searches |-> ss] :
      v \in {"local", "github"}, m \in PathLists, st \in [Paths -> FileStatuses],
      ss \in UNION { [1..n -> SearchOutcomes] : n \in 0..KeywordLimit } }

\* fs.readFile (file-operations.ts lines 25-35): rejects unless the file is read.
readFileLocal(st) ==
  IF st = "ok" THEN [threw |-> FALSE, content |-> "text"] ELSE [threw |-> TRUE, content |-> ""]

\* GitHubFileOperations.readFile (part_001 lines 23-49): a 404 becomes an
\* empty content, any other failure is rethrown.
readFileGitHub(st) ==
  CASE st = "ok" -> [threw |-> FALSE, content |-> "text"]
    [] st = "missing" -> [threw |-> FALSE, content |-> ""]
    [] OTHER -> [threw |-> TRUE, content |-> ""]

\* Variant: a failed read leaves the assembler as an exception.
rethrowsUnreadable(ctx) == [ctx EXCEPT !.threw = TRUE]

\* part_003 lines 66-68 and 82-84, cloud-code-generator.ts lines 81-83,
\* part_001 lines 64-66: a failed read is logged and the file is skipped.
skipsUnreadable(ctx) == ctx

\* context.set(path, content); the cloud variant sets only non-empty content.
setFile(ctx, variant, path, r) ==
  IF r.threw THEN skipsUnreadable(ctx)
  ELSE IF variant = "github" /\ r.content = "" THEN ctx
  ELSE [ctx EXCEPT !.files = @ \cup {path}]

RECURSIVE readInto(_, _, _, _, _)
\* The read loops; `extra` is the second loop, which tests context.has first.
readInto(ctx, e, paths, i, extra) ==
  IF i > Len(paths) \/ ctx.threw THEN ctx
  ELSE IF extra /\ paths[i] \in ctx.files THEN readInto(ctx, e, paths, i + 1, extra)
  ELSE LET r == IF e.variant = "local" THEN readFileLocal(e.status[paths[i]])
                                          ELSE readFileGitHub(e.status[paths[i]])
       IN readInto(setFile(ctx, e.variant, paths[i], r), e, paths, i + 1, extra)

\* findRelevantFiles (file-operations.ts lines 137-176) and searchFiles
\* (part_001 lines 209-220): a failed search is caught and gives no path.
searchResult(search) == IF search.failed THEN <<>> ELSE search.found

RECURSIVE searchInto(_, _, _, _)
searchInto(ctx, e, limit, k) ==
  IF k > Len(e.searches) \/ ctx.threw THEN ctx
  ELSE searchInto(readInto(ctx, e, Take(searchResult(e.searches[k]), limit), 1, TRUE),
                  e, limit, k + 1)

\* part_003 lines 54-90: one search over all keywords.
gatherContextLocal(e) ==
  LET mentioned == readInto([threw |-> FALSE, files |-> {}], e, e.mentioned, 1, FALSE)
      search == IF e.searches = <<>> THEN [failed |-> FALSE, found |-> <<>>]
                ELSE e.searches[1]
  IN readInto(mentioned, e, Take(searchResult(search), ExtraFilesLimit), 1, TRUE)

\* cloud-code-generator.ts lines 52-90: one search per keyword.
gatherContextFromGitHub(e) ==
  searchInto(readInto([threw |-> FALSE, files |-> {}], e, e.mentioned, 1, FALSE),
             e, FoundLimit, 1)

\* part_003 line 153, cloud-code-generator.ts line 150.
contextSection(ctxFiles) ==
  IF ctxFiles = {} THEN "No existing files provided" ELSE "Current Codebase Context"

CtxEnv == ctxEnv[1]

CtxOut == ctxOut[1]

\* generateImplementation, `const context = await this.gatherContext(issue)`.
GatherContext ==
  /\ ctxOut = <<>>
  /\ LET ctx == IF CtxEnv.variant = "local" THEN gatherContextLocal(CtxEnv)
                                            ELSE gatherContextFromGitHub(CtxEnv)
     IN ctxOut' = << [stage |-> IF ctx.threw THEN "threw" ELSE "gathered",
                      files |-> ctx.files, prompt |-> ""] >>
  /\ UNCHANGED <<ctxEnv, v2vars, ghvars, morevars, svcvars, valvars, parsevars>>

\* generateWithClaude: buildPrompt and anthropic.messages.create.
GenerateWithClaude ==
  /\ ctxOut # <<>>
  /\ CtxOut.stage = "gathered"
  /\ ctxOut' = << [CtxOut EXCEPT !.stage = "called", !.prompt = contextSection(CtxOut.files)] >>
  /\ UNCHANGED <<ctxEnv, v2vars, ghvars, morevars, svcvars, valvars, parsevars>>

InitContext ==
  /\ ctxEnv \in { << x >> : x \in CtxEnvs }
  /\ ctxOut = <<>>
  /\ V2Idle /\ GhIdle /\ MoreIdle /\ SvcIdle /\ ValIdle /\ ParseIdle

NextContext == GatherContext \/ GenerateWithClaude

SpecContext == InitContext /\ [][NextContext]_vars

\* The paths the assembler is pointed at: mentioned ones and search hits.
Candidates ==
  Range(CtxEnv.mentioned) \cup
    UNION { Range(searchResult(CtxEnv.searches[k])) :
              k \in IF CtxEnv.variant = "local" THEN DOMAIN CtxEnv.searches \cap {1}
                                               ELSE DOMAIN CtxEnv.searches }

MaxBlocks == 3

Tok(k, v) == [kind |-> k, val |-> v]

\* The shapes a block of the reply can take; "otherFormat" is the block
\* format of the other parser (ACTION line missing, or present where none
\* is expected).
Block(sh, p, c) == [shape |-> sh, path |-> p, content |-> c]

Blocks ==
  { Block("wellFormed", "A.swift", "x"), Block("wellFormed", "B.swift", "y"),
    Block("wellFormed", "A.swift", "z"),
    Block("unclosed", "A.swift", "x"), Block("otherFormat", "B.swift", "y"),
    Block("badAction", "B.swift", "y"), Block("prose", "", "note") }

Replies ==
  { [variant |-> v, blocks |-> bs] :
      v \in {"local", "github"}, bs \in UNION { [1..n -> Blocks] : n \in 0..MaxBlocks } }

\* The lines of one block.
lines(b, variant) ==
  LET file == << Tok("file", b.path) >>
      action == << Tok("action", IF b.shape = "badAction" THEN "rename" ELSE "create") >>
      withAction == (variant = "local") = (b.shape # "otherFormat")
      body == << Tok("fence", "swift"), Tok("text", b.content) >>
      close == IF b.shape = "unclosed" THEN <<>> ELSE << Tok("close", "") >>
  IN IF b.shape = "prose" THEN << Tok("text", b.content) >>
     ELSE file \o (IF withAction \/ b.shape = "badAction" THEN action ELSE <<>>) \o body \o close

RECURSIVE text(_, _, _)
\* The reply as the parser receives it: the blocks' lines in order.
text(blocks, variant, k) ==
  IF k > Len(blocks) THEN <<>>
  ELSE lines(blocks[k], variant) \o text(blocks, variant, k + 1)

\* Three backquotes open both kinds of fence line.
hasBackquotes(t) == t.kind \in {"fence", "close"}

RECURSIVE nextBackquotes(_, _)
\* ([\s\S]*?) followed by three backquotes: the first fence line at or
\* after j, 0 when there is none.
nextBackquotes(toks, j) ==
  IF j > Len(toks) THEN 0
  ELSE IF hasBackquotes(toks[j]) THEN j ELSE nextBackquotes(toks, j + 1)

\* Lines the header part of the expression spans: FILE and ACTION, or FILE.
headerLines(variant) == IF variant = "local" THEN 2 ELSE 1

\* The expression matches starting at line i.
matchesAt(toks, i, variant) ==
  LET h == headerLines(variant)
  IN /\ toks[i].kind = "file"
     /\ i + h <= Len(toks)
     /\ variant = "local" =>
          toks[i + 1].kind = "action" /\ toks[i + 1].val \in {"create", "modify", "delete"}
     /\ hasBackquotes(toks[i + h])
     /\ nextBackquotes(toks, i + h + 1) # 0

FileChange(p, a, c) == [filePath |-> p, action |-> a, content |-> c]

RECURSIVE execFrom(_, _, _)
\* The while loop over fileBlockRegex.exec: a match pushes one change and
\* the search resumes after the backquotes that ended it.
execFrom(toks, i, variant) ==
  IF i > Len(toks) THEN <<>>
  ELSE IF matchesAt(toks, i, variant)
    THEN LET h == headerLines(variant)
             j == nextBackquotes(toks, i + h + 1)
         IN << FileChange(toks[i].val,
                          IF variant = "local" THEN toks[i + 1].val ELSE "",
                          SubSeq(toks, i + h + 1, j - 1)) >>
              \o execFrom(toks, j + 1, variant)
    ELSE execFrom(toks, i + 1, variant)

parseFileChanges(reply) == execFrom(text(reply.blocks, reply.variant, 1), 1, reply.variant)

\* message.content arrives from the model.
ModelReplies ==
  /\ response = <<>>
  /\ \E r \in Replies : response' = << r >>
  /\ UNCHANGED <<fileChanges, v2vars, ghvars, morevars, svcvars, valvars, ctxvars>>

\* part_003 line 41, cloud-code-generator.ts line 40.
ParseFileChanges ==
  /\ response # <<>>
  /\ fileChanges = <<>>
  /\ fileChanges' = << parseFileChanges(response[1]) >>
  /\ UNCHANGED <<response, v2vars, ghvars, morevars, svcvars, valvars, ctxvars>>

InitParse ==
  /\ response = <<>>
  /\ fileChanges = <<>>
  /\ V2Idle /\ GhIdle /\ MoreIdle /\ SvcIdle /\ ValIdle /\ CtxIdle

NextParse == ModelReplies \/ ParseFileChanges

SpecParse == InitParse /\ [][NextParse]_vars

RECURSIVE wellFormedBlocks(_, _, _)
\* The changes of the well-formed blocks of a reply, in order.
wellFormedBlocks(blocks, variant, k) ==
  IF k > Len(blocks) THEN <<>>
  ELSE (IF blocks[k].shape = "wellFormed"
          THEN << FileChange(blocks[k].path, IF variant = "local" THEN "create" ELSE "",
                             << Tok("text", blocks[k].content) >>) >>
          ELSE <<>>) \o wellFormedBlocks(blocks, variant, k + 1)

\* C20: parsing is tolerant and local: a block that does not match the
\* grammar (for example one with no closing fence) is skipped and changes
\* neither path nor content of any well-formed block of the same reply, so
\* the parser returns exactly the well-formed blocks.
C20_TolerantParsing ==
  fileChanges # <<>> =>
    fileChanges[1] = wellFormedBlocks(response[1].blocks, response[1].variant, 1)

\* C21: the change set the parser returns holds at most one operation per
\* path; of several blocks for one path only the last is kept.
C21_OnePerPath ==
  fileChanges # <<>> =>
    \A i, j \in DOMAIN fileChanges[1] :
      i # j => fileChanges[1][i].filePath # fileChanges[1][j].filePath

\* C22: a reply that is one well-formed file block without an action marker
\* gives, from the parser of the V2 generator, exactly one operation, a
\* create of the block's path with the block's content.
C22_NoMarkerIsCreate ==
  \A b \in Blocks :
    ( /\ fileChanges # <<>>
      /\ response[1].variant = "local"
      /\ b.shape = "otherFormat"
      /\ response[1].blocks = << b >> )
    => fileChanges[1] = << FileChange(b.path, "create", << Tok("text", b.content) >>) >>

\* The issue as getLinearIssue returned it.
FetchedIssues ==
  [identifier : {"ISS-1"}, title : {"T"}, priority : {"2"}, description : Descriptions]

\* C24: the issue is immutable during a run: at every point it has exactly
\* the fields it was fetched with, with their fetched values.
C24_IssueImmutable == issue \in FetchedIssues

\* The last operation of the published change set on path p is a delete.
DeletedLast(changes, p) ==
  \E i \in DOMAIN changes :
    /\ changes[i].filePath = p
    /\ changes[i].action = "delete"
    /\ \A j \in DOMAIN changes : j > i => changes[j].filePath # p

\* C25: after publication, a path the published change set deletes is
\* absent from the tree pushed to the branch; it is not there with empty
\* content.
C25_DeleteRemovesPath ==
  (pushed # <<>> /\ Accepted) =>
    \A p \in Paths :
      DeletedLast(outcome[1].result.changes, p) =>
        Last(pushed)[p] = Absent /\ Last(pushed)[p] # ""

\* A file of the baseline was deleted by the accepted change set and the
\* branch was pushed without it.
C25_Witness ==
  /\ pushed # <<>>
  /\ Accepted
  /\ baseline["A.swift"] # Absent
  /\ DeletedLast(outcome[1].result.changes, "A.swift")
  /\ Last(pushed)["A.swift"] = Absent

(***************************************************************************)
(* extractFilePaths of FileOperations ("local") and GitHubFileOperations   *)
(* ("github") over a one-line description.  A text is a sequence of        *)
(* tokens: "BACKTICK" for a back-tick, "**", ",", ":", ".", " ", a line number, the word  *)
(* "Files", another word, or a path.                                       *)
(***************************************************************************)
MaxParts == 3

\* The extension of each path token.
ExtOf == [p \in {"src/Foo.swift", "Bar.swift"} |-> "swift"] @@ [p \in {"README.md"} |-> "md"]

isPath(t) == t \in DOMAIN ExtOf

\* The phrases descriptions are made of: paths in back-ticks, the labels
\* "Files: ", "**Files:** " and "**Files**: ", a bare path, a path with a
\* line number, ", ", " and ", and a full stop.
Phrases ==
  { << "BACKTICK", "src/Foo.swift", "BACKTICK" >>, << "BACKTICK", "README.md", "BACKTICK" >>,
    << "Files", ":", " " >>, << "**", "Files", ":", "**", " " >>,
    << "**", "Files", "**", ":", " " >>, << "Bar.swift" >>,
    << "Bar.swift", ":", "12" >>, << ",", " " >>, << " ", "and", " " >>, << "." >> }

RECURSIVE concat(_, _)
concat(parts, k) == IF k > Len(parts) THEN <<>> ELSE parts[k] \o concat(parts, k + 1)

DescriptionTexts ==
  { concat(parts, 1) : parts \in UNION { [1..n -> Phrases] : n \in 0..MaxParts } }

\* Extensions of the back-tick pattern and of the endsWith filter:
\* file-operations.ts lines 105 and 124, part_001 lines 249 and 271-276.
patternExtensions(variant) ==
  IF variant = "local" THEN {"swift", "graphql", "json", "md", "txt"}
  ELSE {"swift", "graphql", "json", "md", "txt", "sh"}

filterExtensions(variant) ==
  IF variant = "local" THEN {"swift", "graphql", "json"}
  ELSE {"swift", "graphql", "json", "md", "sh", "txt"}

RECURSIVE indexOf(_, _, _)
\* First index at or after i whose token is t, 0 when there is none.
indexOf(toks, t, i) ==
  IF i > Len(toks) THEN 0 ELSE IF toks[i] = t THEN i ELSE indexOf(toks, t, i + 1)

RECURSIVE backtickMatches(_, _, _)
\* matchAll of the first pattern: text between two back-ticks that ends in
\* a listed extension.
backtickMatches(toks, i, variant) ==
  IF i > Len(toks) THEN <<>>
  ELSE LET j == indexOf(toks, "BACKTICK", i + 1)
       IN IF /\ toks[i] = "BACKTICK"
             /\ j > i + 1
             /\ isPath(toks[j - 1])
             /\ ExtOf[toks[j - 1]] \in patternExtensions(variant)
            THEN << SubSeq(toks, i + 1, j - 1) >> \o backtickMatches(toks, j + 1, variant)
            ELSE backtickMatches(toks, i + 1, variant)

RECURSIVE skipSpaces(_, _)
skipSpaces(toks, i) ==
  IF i <= Len(toks) /\ toks[i] = " " THEN skipSpaces(toks, i + 1) ELSE i

\* The rest of the line from i on, after \s*; no match when nothing is left.
restOfLine(toks, i) ==
  LET k == skipSpaces(toks, i)
  IN IF k > Len(toks) THEN <<>> ELSE << SubSeq(toks, k, Len(toks)) >>

RECURSIVE boldLabelMatches(_, _)
\* matchAll of the second pattern: **Files** with an optional colon.
boldLabelMatches(toks, i) ==
  IF i + 2 > Len(toks) THEN <<>>
  ELSE IF toks[i] = "**" /\ toks[i + 1] = "Files" /\ toks[i + 2] = "**"
         THEN LET k == IF i + 3 <= Len(toks) /\ toks[i + 3] = ":" THEN i + 4 ELSE i + 3
                  m == restOfLine(toks, k)
              IN IF m # <<>> THEN m ELSE boldLabelMatches(toks, i + 1)
         ELSE boldLabelMatches(toks, i + 1)

RECURSIVE labelMatches(_, _)
\* matchAll of the third pattern: Files: and the rest of the line.
labelMatches(toks, i) ==
  IF i + 1 > Len(toks) THEN <<>>
  ELSE IF toks[i] = "Files" /\ toks[i + 1] = ":"
         THEN LET m == restOfLine(toks, i + 2)
              IN IF m # <<>> THEN m ELSE labelMatches(toks, i + 1)
         ELSE labelMatches(toks, i + 1)

RECURSIVE split(_, _, _)
\* text.split(/[,\n]/)
split(toks, i, piece) ==
  IF i > Len(toks) THEN << piece >>
  ELSE IF toks[i] = "," THEN << piece >> \o split(toks, i + 1, <<>>)
  ELSE split(toks, i + 1, Append(piece, toks[i]))

RECURSIVE trimStart(_)
trimStart(toks) == IF toks # <<>> /\ toks[1] = " " THEN trimStart(Tail(toks)) ELSE toks

RECURSIVE trimEnd(_)
trimEnd(toks) ==
  IF toks # <<>> /\ toks[Len(toks)] = " " THEN trimEnd(SubSeq(toks, 1, Len(toks) - 1)) ELSE toks

trim(toks) == trimEnd(trimStart(toks))

\* replace(/^X|X$/g, ''): one X off the start and one off the end.
stripEnds(toks, x) ==
  LET a == IF toks # <<>> /\ toks[1] = x THEN Tail(toks) ELSE toks
  IN IF a # <<>> /\ a[Len(a)] = x THEN SubSeq(a, 1, Len(a) - 1) ELSE a

\* replace(/:\d+(-\d+)?$/, '')
stripLineNumber(toks) ==
  IF Len(toks) >= 2 /\ toks[Len(toks)] = "12" /\ toks[Len(toks) - 1] = ":"
    THEN SubSeq(toks, 1, Len(toks) - 2) ELSE toks

\* The map over the pieces: file-operations.ts lines 117-122, part_001 lines 260-268.
clean(piece, variant) ==
  IF variant = "local"
    THEN trim(stripLineNumber(stripEnds(trim(piece), "BACKTICK")))
    ELSE trim(stripLineNumber(stripEnds(stripEnds(trim(piece), "**"), "BACKTICK")))

\* p && p.endsWith(<a listed extension>)
endsWithExtension(piece, variant) ==
  /\ piece # <<>>
  /\ isPath(piece[Len(piece)])
  /\ ExtOf[piece[Len(piece)]] \in filterExtensions(variant)

RECURSIVE stripLeadingSpecial(_)
\* part_001 line 279: replace(/^[^a-zA-Z0-9./_-]+/, '')
stripLeadingSpecial(toks) ==
  IF toks # <<>> /\ toks[1] \in {"BACKTICK", "**", ",", ":", " "}
    THEN stripLeadingSpecial(Tail(toks)) ELSE toks

\* The paths one matched text contributes.
pathsOf(matched, variant) ==
  LET pieces == split(matched, 1, <<>>)
      kept == { clean(pieces[k], variant) : k \in DOMAIN pieces }
  IN { IF variant = "local" THEN q ELSE stripLeadingSpecial(q) :
         q \in { c \in kept : endsWithExtension(c, variant) } }

extractFilePaths(toks, variant) ==
  LET matches == backtickMatches(toks, 1, variant) \o boldLabelMatches(toks, 1)
                   \o labelMatches(toks, 1)
  IN UNION { pathsOf(matches[k], variant) : k \in DOMAIN matches }

IssueText == issueText[1]

\* const mentionedFiles = this.fileOps.extractFilePaths(issue.description)
ExtractFilePaths ==
  /\ issueText # <<>>
  /\ filePaths = <<>>
  /\ filePaths' = << extractFilePaths(IssueText.text, IssueText.variant) >>
  /\ UNCHANGED <<issueText, fbvars, cloudvars, v2vars, ghvars, svcvars, valvars, ctxvars, parsevars>>

\* The issue arrives with its description.
IssueFetched ==
  /\ issueText = <<>>
  /\ \E t \in DescriptionTexts, v \in {"local", "github"} :
       issueText' = << [text |-> t, variant |-> v] >>
  /\ UNCHANGED <<filePaths, fbvars, cloudvars, v2vars, ghvars, svcvars, valvars, ctxvars, parsevars>>

InitExtract ==
  /\ issueText = <<>>
  /\ filePaths = <<>>
  /\ V2Idle /\ GhIdle /\ FbIdle /\ CloudIdle /\ SvcIdle /\ ValIdle /\ CtxIdle /\ ParseIdle

NextExtract == IssueFetched \/ ExtractFilePaths

SpecExtract == InitExtract /\ [][NextExtract]_vars

\* Only path characters: path tokens, possibly joined by dots.
barePath(q) == q # <<>> /\ \A k \in DOMAIN q : isPath(q[k]) \/ q[k] = "."

\* Some returned entry of the named variant is not a bare path.
DecoratedPathReturned(variant) ==
  /\ filePaths # <<>>
  /\ IssueText.variant = variant
  /\ \E q \in filePaths[1] : ~barePath(q)

\* C26: every path with an allow-listed extension that the description
\* holds inside back-ticks is in the list extractFilePaths returns,
\* verbatim, and every returned entry is a bare path: no back-tick, no
\* markdown decoration, no punctuation, no ':line' suffix.
C26_ContextCompleteness ==
  filePaths # <<>> =>
    /\ \A i \in 1..(Len(IssueText.text) - 2) :
         ( /\ IssueText.text[i] = "BACKTICK"
           /\ isPath(IssueText.text[i + 1])
           /\ ExtOf[IssueText.text[i + 1]] \in filterExtensions(IssueText.variant)
           /\ IssueText.text[i + 2] = "BACKTICK" )
         => << IssueText.text[i + 1] >> \in filePaths[1]
    /\ \A q \in filePaths[1] : barePath(q)

(***************************************************************************)
(* The two request handlers of index.ts that start runs, on their own:     *)
(* what a run does after it was started is the subject of SpecService.     *)
(***************************************************************************)
NextWebhook == LinearWebhook \/ ManualTrigger

SpecWebhook == InitService /\ [][NextWebhook]_vars

WebhookRuns == { i \in DOMAIN runs : runs[i].source = "webhook" }

RequestOf(i) == runs[i].request[1]

\* C27: with LINEAR_WEBHOOK_SECRET configured, every run started by the
\* Linear webhook was started by a request whose signature matches: none
\* by a request with a missing, different or differently long signature.
C27_WebhookAuthenticity ==
  env.secretSet => \A i \in WebhookRuns : RequestOf(i).signature = "valid"

\* With the secret configured, a signed request started a run and a later
\* request was answered 500: its signature was missing or of another length.
C27_Witness ==
  /\ env.secretSet
  /\ WebhookRuns # {}
  /\ Len(runs) < MaxRuns
  /\ httpStatus = 500

\* The event is an issue moving to In Progress.
MovesToInProgress(req) ==
  /\ req.type = "Issue"
  /\ req.action = "update"
  /\ toLowerCase(req.stateName) = "in progress"
  /\ req.moved

\* C28: the Linear webhook starts a run only for an event in which an
\* issue moves to In Progress; an update that does not move the issue
\* into In Progress starts none.
C28_TriggerPrecision ==
  \A i \in WebhookRuns : MovesToInProgress(RequestOf(i))

(***************************************************************************)
(* PR feedback: POST /webhook/github (index.ts) and PRFeedbackHandler.     *)
(* A comment body, a summary and an error message are sequences of words;  *)
(* the hosting service sends an issue_comment event for every comment      *)
(* created on the pull request, the handler's own replies included.        *)
(***************************************************************************)
MaxFeedbackRuns == 2

\* Accounts GITHUB_TOKEN can belong to: an app installation or a user.
Logins == {"claude-agent[bot]", "gonzalovazquez"}

Authors == {"alice", "dependabot[bot]"}

\* author.includes('[bot]')
includesBot(author) == author \in {"claude-agent[bot]", "dependabot[bot]"}

\* Comment bodies: a mention at the start, a capitalised mention at the
\* end, the command after leading blanks, the command in the middle, no
\* trigger at all, and an address that has the mention inside.
Bodies ==
  { << "@claude", " ", "fix" >>, << "please", " ", "@Claude" >>,
    << " ", "/Claude", " ", "fix" >>, << "fix", " ", "/claude" >>,
    << "fix" >>, << "mail", " ", "me@claude.ai" >> }

\* comment.toLowerCase()
lower(words) ==
  [k \in DOMAIN words |->
     CASE words[k] = "@Claude" -> "@claude"
       [] words[k] = "/Claude" -> "/claude"
       [] OTHER -> words[k]]

\* normalized.includes('@claude')
includesMention(words) == \E k \in DOMAIN words : words[k] \in {"@claude", "me@claude.ai"}

\* normalized.startsWith('/claude')
startsWithCommand(words) == words # <<>> /\ words[1] = "/claude"

\* Variant: the command is looked for before the text is trimmed.
triggersUntrimmed(comment, author) ==
  /\ ~includesBot(author)
  /\ includesMention(lower(comment)) \/ startsWithCommand(lower(comment))

\* pr-feedback-handler.ts lines 275-285.
shouldProcessComment(comment, author) ==
  /\ ~includesBot(author)
  /\ LET normalized == trim(lower(comment))
     IN includesMention(normalized) \/ startsWithCommand(normalized)

\* The events the hosting service sends for what others do: a comment
\* created on the pull request, by each author with each body, and the
\* mention by a user in a comment that is edited, deleted or made on a
\* plain issue, and in an event of another kind.
Events ==
  [event : {"issue_comment"}, action : {"created"}, isPR : {TRUE},
   author : Authors, body : Bodies, from : {"user"}]
  \cup
  { e \in [event : {"issue_comment", "push"}, action : {"created", "edited", "deleted"},
           isPR : BOOLEAN, author : {"alice"}, body : { << "@claude", " ", "fix" >> },
           from : {"user"}] :
      \/ e.event = "push" /\ e.action = "created" /\ e.isPR
      \/ e.event = "issue_comment" /\ e.action # "created" /\ e.isPR
      \/ e.event = "issue_comment" /\ e.action = "created" /\ ~e.isPR }

\* The issue_comment event of a reply the handler posted.
OwnEvent(body) ==
  [event |-> "issue_comment", action |-> "created", isPR |-> TRUE,
   author |-> tokenLogin, body |-> body, from |-> "handler"]

\* What the model's reply can parse to: no file block and a summary that
\* says so, no file block and no Summary section (the default summary),
\* or a file block with a summary, which may quote the mention.
Updates ==
  { [files |-> <<>>, summary |-> << "No", " ", "changes", " ", "needed" >>],
    [files |-> <<>>, summary |-> << "Updated", " ", "based", " ", "on", " ", "feedback" >>],
    [files |-> << "A.swift" >>, summary |-> << "Renamed" >>],
    [files |-> << "A.swift" >>, summary |-> << "Done", " ", "as", " ", "@claude", " ", "asked" >>] }

\* The three replies of processFeedback, lines 59, 75-86 and 91-97.
noChangeReply == << "No code changes needed based on your feedback." >>

successReply(updates) ==
  << "I've updated the code based on your feedback!", "Changes made:" >> \o updates.files
    \o << "Summary:" >> \o updates.summary \o << "The changes have been pushed to this PR." >>

errorReply(message) == << "I encountered an error processing your feedback.", "Error:", message >>

\* A processFeedback call: committed tells whether its commitFiles call
\* moved the branch, reply which of the three replies it posted.
FeedbackRun(ev) ==
  [event |-> ev, pc |-> "getClaudeUpdates", updates |-> <<>>, error |-> <<>>,
   committed |-> FALSE, reply |-> ""]

fbFrame == <<v2vars, ghvars, svcvars, valvars, ctxvars, parsevars, extvars, cloudvars>>

\* index.ts lines 105-150 for the event ev.
handleGitHubEvent(ev) ==
  /\ delivered' = << ev >>
  /\ IF ev.event = "issue_comment"
       THEN IF ev.action = "created" /\ ev.isPR
              THEN IF shouldProcessComment(ev.body, ev.author)
                     THEN /\ ghStatus' = 202
                          /\ feedbackRuns' = Append(feedbackRuns, FeedbackRun(ev))
                     ELSE ghStatus' = 200 /\ UNCHANGED feedbackRuns
              ELSE ghStatus' = 200 /\ UNCHANGED feedbackRuns
       ELSE ghStatus' = 200 /\ UNCHANGED feedbackRuns

\* An event caused by somebody else arrives.
GitHubWebhook ==
  /\ Len(feedbackRuns) < MaxFeedbackRuns
  /\ \E ev \in Events : handleGitHubEvent(ev)
  /\ UNCHANGED <<tokenLogin, prComments>>
  /\ UNCHANGED fbFrame

\* The event of a reply the handler posted arrives.
GitHubWebhookOwnComment ==
  /\ Len(feedbackRuns) < MaxFeedbackRuns
  /\ \E k \in DOMAIN prComments :
       /\ ~prComments[k].delivered
       /\ handleGitHubEvent(OwnEvent(prComments[k].body))
       /\ prComments' = [prComments EXCEPT ![k].delivered = TRUE]
  /\ UNCHANGED tokenLogin
  /\ UNCHANGED fbFrame

\* Variant: the commit is attempted whatever the number of files.
alwaysCommits(updates) == "commitFiles"

\* Lines 58-61: if (updates.files.length === 0) { reply; return; }
afterUpdates(updates) == IF Len(updates.files) = 0 THEN "replyNoChange" ELSE "commitFiles"

FbAt(i, step) == i \in DOMAIN feedbackRuns /\ feedbackRuns[i].pc = step

\* Lines 47-61: the pull request is read and the model asked; any of the
\* calls can reject.
FeedbackGetClaudeUpdates ==
  \E i \in DOMAIN feedbackRuns :
    /\ FbAt(i, "getClaudeUpdates")
    /\ \/ \E u \in Updates :
            feedbackRuns' = [feedbackRuns EXCEPT
              ![i].updates = << u >>,
              ![i].pc = afterUpdates(u)]
       \/ feedbackRuns' = [feedbackRuns EXCEPT
            ![i].error = << "Not Found" >>, ![i].pc = "replyError"]
    /\ UNCHANGED <<tokenLogin, prComments, delivered, ghStatus>>
    /\ UNCHANGED fbFrame

\* Lines 63-72.
FeedbackCommitFiles ==
  \E i \in DOMAIN feedbackRuns :
    /\ FbAt(i, "commitFiles")
    /\ \/ feedbackRuns' = [feedbackRuns EXCEPT ![i].pc = "replySuccess",
                                                ![i].committed = TRUE]
       \/ feedbackRuns' = [feedbackRuns EXCEPT
            ![i].error = << "Update is not a fast forward" >>, ![i].pc = "replyError"]
    /\ UNCHANGED <<tokenLogin, prComments, delivered, ghStatus>>
    /\ UNCHANGED fbFrame

\* The catch of processFeedback, lines 88-98: whatever rejected inside the
\* try, the success reply after the commit included, the error reply follows.
onReplyRejected(run) == "replyError"

\* replyToComment, lines 260-269, with the message of the run's position.
\* createComment can reject: inside the try the catch takes over, inside
\* the catch processFeedback rejects.
FeedbackReply ==
  \E i \in DOMAIN feedbackRuns :
    /\ feedbackRuns[i].pc \in {"replyNoChange", "replySuccess", "replyError"}
    /\ LET run == feedbackRuns[i]
           message == CASE run.pc = "replyNoChange" -> noChangeReply
                        [] run.pc = "replySuccess" -> successReply(run.updates[1])
                        [] OTHER -> errorReply(run.error[1])
       IN \/ /\ prComments' = Append(prComments, [body |-> message, delivered |-> FALSE])
             /\ feedbackRuns' = [feedbackRuns EXCEPT ![i].pc = "done", ![i].reply = run.pc]
          \/ /\ UNCHANGED prComments
             /\ feedbackRuns' = [feedbackRuns EXCEPT
                   ![i].pc = IF run.pc = "replyError" THEN "rejected" ELSE onReplyRejected(run),
                   ![i].error = << "Validation Failed" >>]
    /\ UNCHANGED <<tokenLogin, delivered, ghStatus>>
    /\ UNCHANGED fbFrame

InitFeedback ==
  /\ tokenLogin \in Logins
  /\ prComments = <<>>
  /\ delivered = <<>>
  /\ feedbackRuns = <<>>
  /\ ghStatus = 0
  /\ V2Idle /\ GhIdle /\ SvcIdle /\ ValIdle /\ CtxIdle /\ ParseIdle /\ ExtIdle /\ CloudIdle

NextFeedback ==
  \/ GitHubWebhook \/ GitHubWebhookOwnComment
  \/ FeedbackGetClaudeUpdates \/ FeedbackCommitFiles \/ FeedbackReply

SpecFeedback == InitFeedback /\ [][NextFeedback]_vars

\* The summary says that nothing has to change.
StatesNoChange(summary) == summary = << "No", " ", "changes", " ", "needed" >>

\* C23: when the parser returns no file, the handling depends on the
\* summary: a run whose summary does not state that no change is required
\* is not answered with the no-change report.
C23_EmptyResultDisambiguated ==
  \A i \in DOMAIN feedbackRuns :
    ( /\ feedbackRuns[i].updates # <<>>
      /\ feedbackRuns[i].updates[1].files = <<>>
      /\ ~StatesNoChange(feedbackRuns[i].updates[1].summary) )
    => feedbackRuns[i].reply # "replyNoChange"

\* C29: no processFeedback run is started by the event of a comment the
\* handler posted itself.
C29_NoSelfTrigger ==
  \A i \in DOMAIN feedbackRuns : feedbackRuns[i].event.from # "handler"

\* The request handler of /webhook/github on its own, for the events
\* others cause: what a started run does is the subject of SpecFeedback.
NextGitHubWebhook == GitHubWebhook

SpecGitHubWebhook == InitFeedback /\ [][NextGitHubWebhook]_vars

\* The condition the documentation gives for an event to start processing.
StartsProcessing(ev) ==
  /\ ev.event = "issue_comment" /\ ev.action = "created" /\ ev.isPR
  /\ ~includesBot(ev.author)
  /\ \/ includesMention(trim(lower(ev.body)))
     \/ startsWithCommand(trim(lower(ev.body)))

\* C30: the last event was answered 202 and started a processFeedback run
\* for that event exactly when it is a newly created comment on a pull
\* request, by an author without '[bot]', whose lower-cased and trimmed
\* text contains '@claude' or starts with '/claude'; and every run was
\* started by such an event.
C30_FeedbackTrigger ==
  /\ delivered # <<>> =>
       /\ ghStatus = 202 <=> StartsProcessing(delivered[1])
       /\ ghStatus = 202 =>
            /\ feedbackRuns # <<>>
            /\ feedbackRuns[Len(feedbackRuns)].event = delivered[1]
  /\ \A i \in DOMAIN feedbackRuns : StartsProcessing(feedbackRuns[i].event)

\* A run was started by the command after leading blanks, and the event
\* after it, a comment of a bot with the mention, was answered 200.
C30_Witness ==
  /\ \E i \in DOMAIN feedbackRuns :
       feedbackRuns[i].event.body = << " ", "/Claude", " ", "fix" >>
  /\ delivered # <<>>
  /\ delivered[1].author = "dependabot[bot]"
  /\ delivered[1].body = << "@claude", " ", "fix" >>
  /\ delivered[1].event = "issue_comment" /\ delivered[1].action = "created"
  /\ delivered[1].isPR
  /\ ghStatus = 200

(***************************************************************************)
(* One processFeedback call on its own, from the moment index.ts started   *)
(* it for an accepted comment.                                             *)
(***************************************************************************)
FeedbackStarted ==
  /\ tokenLogin \in Logins
  /\ prComments = <<>>
  /\ \E ev \in Events :
       /\ shouldProcessComment(ev.body, ev.author)
       /\ ev.event = "issue_comment" /\ ev.action = "created" /\ ev.isPR
       /\ delivered = << ev >>
       /\ feedbackRuns = << FeedbackRun(ev) >>
  /\ ghStatus = 202

InitProcessFeedback ==
  /\ FeedbackStarted
  /\ V2Idle /\ GhIdle /\ SvcIdle /\ ValIdle /\ CtxIdle /\ ParseIdle /\ ExtIdle /\ CloudIdle

NextProcessFeedback == FeedbackGetClaudeUpdates \/ FeedbackCommitFiles \/ FeedbackReply

SpecProcessFeedback == InitProcessFeedback /\ [][NextProcessFeedback]_vars

NoFileUpdates(run) == run.updates # <<>> /\ run.updates[1].files = <<>>

\* C31: a processFeedback call whose model answer yields no file updates
\* never commits to the PR branch, and when its reply is accepted it has
\* posted one comment, the one stating that no code changes are needed.
C31_NoChangeNoCommit ==
  \A i \in DOMAIN feedbackRuns :
    NoFileUpdates(feedbackRuns[i]) =>
      /\ ~feedbackRuns[i].committed
      /\ feedbackRuns[i].pc # "commitFiles"
      /\ (feedbackRuns[i].pc = "done" /\ feedbackRuns[i].error = <<>>) =>
           /\ feedbackRuns[i].reply = "replyNoChange"
           /\ prComments = << [body |-> noChangeReply, delivered |-> FALSE] >>

\* The call ended after an answer without file updates.
C31_Witness ==
  /\ feedbackRuns # <<>>
  /\ NoFileUpdates(feedbackRuns[1])
  /\ feedbackRuns[1].pc = "done"
  /\ feedbackRuns[1].reply = "replyNoChange"
  /\ Len(prComments) = 1

\* C37: a processFeedback call that posted the error reply made no commit
\* to the PR branch.
C37_ErrorReplyMeansNoCommit ==
  \A i \in DOMAIN feedbackRuns :
    feedbackRuns[i].reply = "replyError" => ~feedbackRuns[i].committed

\* The operation at index i is the last one of the change set on its path.
LastOnPath(changes, i) ==
  \A j \in DOMAIN changes : j > i => changes[j].filePath # changes[i].filePath

\* C33: when applyChanges has returned, the path of every create or modify
\* operation holds that operation's content, the empty string included,
\* and the path of every delete operation is absent (of several
\* operations on one path the last one counts).
C33_ApplyExact ==
  pc = "checkCanBuild" =>
    \A i \in DOMAIN Result.changes :
      LastOnPath(Result.changes, i) =>
        LET change == Result.changes[i]
        IN IF change.action = "delete"
             THEN workingTree[change.filePath] = Absent
             ELSE workingTree[change.filePath] = change.content

\* C34: when a run creates its branch while every other run has ended
\* in failure or has not begun, it starts its first attempt from a working
\* tree equal to the head of main: what a failed run left uncommitted is
\* not there.
C34_CleanStart ==
  [][ \A i \in DOMAIN runs :
        ( /\ runs[i].pc = "createBranch"
          /\ runs'[i].pc = "generateImplementation"
          /\ \A j \in DOMAIN runs \ {i} : runs[j].pc \in {"failed", "getLinearIssue"} )
        => repo'.wt = repo'.local["main"] ]_vars

\* The tree of the commit the call created.
NewTree == trees[commits[newCommitSha].tree]

\* C38: the commit a returned commitFiles call created has the previous
\* head as its single parent and a tree equal to the previous head's tree
\* overridden at exactly the paths of the files; and the branch reference
\* changes only once, in the last step, to that commit.
C38_CommitFrame ==
  /\ [](ghPc = "done" =>
          /\ refs[Branch] = newCommitSha
          /\ commits[newCommitSha].parents = << 1 >>
          /\ \A p \in GhPaths :
               IF \E i \in DOMAIN files : files[i].path = p
                 THEN \E i \in DOMAIN files : files[i].path = p /\ NewTree[p] = files[i].content
                 ELSE NewTree[p] = BaseTree[p])
  /\ [][refs' # refs =>
          /\ ghPc = "updateRef" /\ ghPc' = "done"
          /\ refs = [b \in {Branch} |-> 1]
          /\ refs'[Branch] = newCommitSha']_vars

\* The call returned after committing one file next to an older one.
C38_Witness ==
  /\ ghPc = "done"
  /\ BaseTree["A.swift"] = "old"
  /\ \A i \in DOMAIN files : files[i].path # "A.swift"
  /\ NewTree["A.swift"] = "old"
  /\ refs[Branch] = 2

(***************************************************************************)
(* commitFiles while other writers commit to the same branch: another      *)
(* commitFiles call of the service or a push by a developer lands as one   *)
(* new commit on the present head.                                         *)
(***************************************************************************)
MaxLanded == 2

\* The commits on the hosting side that this call did not create.
landed == Len(commits) - (IF newCommitSha # 0 THEN 1 ELSE 0)

OtherCommitLands ==
  /\ landed < 1 + MaxLanded
  /\ \E p \in GhPaths :
       /\ trees' = Append(trees, [BranchTree EXCEPT ![p] = "theirs"])
       /\ commits' = Append(commits, [tree |-> Len(trees) + 1, parents |-> << refs[Branch] >>])
       /\ refs' = [refs EXCEPT ![Branch] = Len(commits) + 1]
  /\ UNCHANGED <<ghPc, files, blobs, currentCommitSha, currentTreeSha, fileIdx, tree,
                 newTreeSha, newCommitSha>>
  /\ UNCHANGED <<v2vars, auxvars>>

NextCommitRace == NextCommit \/ OtherCommitLands

SpecCommitRace == InitCommit /\ [][NextCommitRace]_vars

\* C39: the branch head only ever moves forward, so no commit that landed
\* is discarded; and when the head has moved since commitFiles read it,
\* the reference update is rejected and commitFiles throws.
C39_NoLostUpdate ==
  [][ /\ refs'[Branch] # refs[Branch] =>
           isAncestorIn(commits', refs[Branch], refs'[Branch])
      /\ (ghPc = "updateRef" /\ ghPc' # ghPc /\ refs[Branch] # currentCommitSha) =>
           ghPc' = "threw" /\ refs' = refs ]_vars

\* Another commit landed after the reference was read, and commitFiles
\* threw with its own commit created but the branch left at the other one.
C39_Witness ==
  /\ ghPc = "threw"
  /\ newCommitSha # 0
  /\ refs[Branch] # currentCommitSha
  /\ refs[Branch] # newCommitSha
  /\ ~isAncestor(refs[Branch], newCommitSha)

\* C35: when the run requests the pull request, its branch has received a
\* new commit in this run and that commit has been pushed.
C35_PullRequestHasCommit ==
  (pc = "createPullRequest" /\ "createPullRequest" \in inflight) =>
    /\ localCommits # <<>>
    /\ pushed # <<>>
    /\ Last(pushed) = Last(localCommits).tree
    /\ Last(pushed) # baseline

(***************************************************************************)
(* GitHubFileOperations.createBranch(branchName, 'main'): one call, each   *)
(* step one request to the hosting API, while other runs of the service    *)
(* create or delete the same branch.  heads.feature is 0 while the branch  *)
(* does not exist.                                                         *)
(***************************************************************************)
MaxCreateAttempts == 3

MaxInterference == 2

BranchCall(step, sha, creates, deletes, others) ==
  [pc |-> step, sha |-> sha, creates |-> creates, deletes |-> deletes, others |-> others]

Call == branchCall[1]

cbFrame == <<cloud, extvars, fbvars, v2vars, ghvars, svcvars, valvars, ctxvars, parsevars>>

\* part_001 lines 77-81: getRef of the base branch.
CreateBranchGetRef ==
  /\ branchCall # <<>> /\ Call.pc = "getRef"
  /\ branchCall' = << [Call EXCEPT !.pc = "createRef", !.sha = heads.main] >>
  /\ UNCHANGED heads
  /\ UNCHANGED cbFrame

\* Lines 84-89 and 92-97: createRef; a 422 answer, given when the
\* reference exists, leads to deleteBranch.
CreateBranchCreateRef ==
  /\ branchCall # <<>> /\ Call.pc = "createRef"
  /\ Call.creates < MaxCreateAttempts
  /\ IF heads.feature = 0
       THEN /\ heads' = [heads EXCEPT !.feature = Call.sha]
            /\ branchCall' = << [Call EXCEPT !.pc = "returned", !.creates = @ + 1] >>
       ELSE /\ UNCHANGED heads
            /\ branchCall' = << [Call EXCEPT !.pc = "deleteRef", !.creates = @ + 1] >>
  /\ UNCHANGED cbFrame

\* deleteBranch, lines 107-121, then the recursive createBranch of line
\* 96: a 404 answer is swallowed.
CreateBranchDeleteRef ==
  /\ branchCall # <<>> /\ Call.pc = "deleteRef"
  /\ heads' = [heads EXCEPT !.feature = 0]
  /\ branchCall' = << [Call EXCEPT !.pc = "getRef",
                                   !.deletes = IF heads.feature # 0 THEN @ + 1 ELSE @] >>
  /\ UNCHANGED cbFrame

\* A request is answered with another error: lines 98-100 and 117-119 rethrow.
CreateBranchRequestFails ==
  /\ branchCall # <<>> /\ Call.pc \in {"getRef", "createRef", "deleteRef"}
  /\ branchCall' = << [Call EXCEPT !.pc = "threw"] >>
  /\ UNCHANGED heads
  /\ UNCHANGED cbFrame

\* Another run creates the branch from main.
OtherRunCreatesBranch ==
  /\ branchCall # <<>> /\ Call.others < MaxInterference
  /\ heads.feature = 0
  /\ heads' = [heads EXCEPT !.feature = heads.main]
  /\ branchCall' = << [Call EXCEPT !.others = @ + 1] >>
  /\ UNCHANGED cbFrame

\* Another run deletes the branch.
OtherRunDeletesBranch ==
  /\ branchCall # <<>> /\ Call.others < MaxInterference
  /\ heads.feature # 0
  /\ heads' = [heads EXCEPT !.feature = 0]
  /\ branchCall' = << [Call EXCEPT !.others = @ + 1] >>
  /\ UNCHANGED cbFrame

\* main is at commit 2; the branch does not exist, is at main's head, or
\* is at the older commit 1.
InitCreateBranch ==
  /\ branchCall = << BranchCall("getRef", 0, 0, 0, 0) >>
  /\ heads \in [main : {2}, feature : {0, 1, 2}]
  /\ cloud = <<>>
  /\ V2Idle /\ GhIdle /\ SvcIdle /\ ValIdle /\ CtxIdle /\ ParseIdle /\ ExtIdle /\ FbIdle

NextCreateBranch ==
  \/ CreateBranchGetRef \/ CreateBranchCreateRef \/ CreateBranchDeleteRef
  \/ CreateBranchRequestFails
  \/ OtherRunCreatesBranch \/ OtherRunDeletesBranch

SpecCreateBranch == InitCreateBranch /\ [][NextCreateBranch]_vars

\* C40: a createBranch call sends at most two createRef requests and
\* deletes a branch at most once, whatever other runs do to the branch.
C40_CreateBranchBounded ==
  branchCall # <<>> =>
    /\ Call.creates <= 2
    /\ Call.deletes <= 1

(***************************************************************************)
(* ClaudeAutomationV3.processIssue: one run against the hosting API.       *)
(* cloud.steps lists the steps the run has completed, cloud.published the  *)
(* file lists commitFiles was called with.                                 *)
(***************************************************************************)
V3Run == cloud[1]

V3At(step) == cloud # <<>> /\ V3Run.pc = step

\* What parseFileChanges can return: no file, or a list of files.
V3FileLists == { <<>> } \cup GitHubFileLists

v3Frame == <<branchCall, extvars, fbvars, v2vars, ghvars, svcvars, valvars, ctxvars, parsevars>>

v3Step(next, name) ==
  cloud' = << [V3Run EXCEPT !.pc = next, !.steps = Append(@, name)] >>

\* Lines 53-58.
V3GetLinearIssue ==
  /\ V3At("getLinearIssue")
  /\ v3Step("createBranch", "getLinearIssue")
  /\ UNCHANGED heads
  /\ UNCHANGED v3Frame

\* Lines 60-61: createBranch(branchName, 'main') leaves the branch at the
\* head of main, deleting it first when it exists.
V3CreateBranch ==
  /\ V3At("createBranch")
  /\ v3Step("gatherContextFromGitHub", "createBranch")
  /\ heads' = [heads EXCEPT !.feature = heads.main]
  /\ UNCHANGED v3Frame

\* Line 64 and cloud-code-generator.ts line 34: the files are read from main.
V3GatherContext ==
  /\ V3At("gatherContextFromGitHub")
  /\ v3Step("generateWithClaude", "readContext")
  /\ UNCHANGED heads
  /\ UNCHANGED v3Frame

\* Variant: the run goes on to commit whatever was generated.
commitsAnyway(generatedFiles) == "commitToGitHub"

\* Lines 66-68: if (implementation.files.length === 0) throw.
afterGenerate(generatedFiles) ==
  IF Len(generatedFiles) = 0 THEN "threw" ELSE "commitToGitHub"

\* cloud-code-generator.ts lines 37-46: the model call and parseFileChanges.
V3GenerateWithClaude ==
  /\ V3At("generateWithClaude")
  /\ \E fs \in V3FileLists :
       cloud' = << [V3Run EXCEPT !.pc = afterGenerate(fs), !.files = fs,
                                 !.steps = Append(@, "generate")] >>
  /\ UNCHANGED heads
  /\ UNCHANGED v3Frame

\* Lines 71 and 114-130: commitFiles puts a new commit on the branch.
V3CommitToGitHub ==
  /\ V3At("commitToGitHub")
  /\ cloud' = << [V3Run EXCEPT !.pc = "createPullRequest",
                               !.steps = Append(@, "commitFiles"),
                               !.published = Append(@, V3Run.files)] >>
  /\ heads' = [heads EXCEPT !.feature = heads.main + 1]
  /\ UNCHANGED v3Frame

\* Lines 74 and 135-168.
V3CreatePullRequest ==
  /\ V3At("createPullRequest")
  /\ v3Step("updateLinearIssue", "createPullRequest")
  /\ UNCHANGED heads
  /\ UNCHANGED v3Frame

\* Lines 77 and 173-177: only logs.
V3UpdateLinearIssue ==
  /\ V3At("updateLinearIssue")
  /\ v3Step("done", "updateLinearIssue")
  /\ UNCHANGED heads
  /\ UNCHANGED v3Frame

\* An awaited call rejects and processIssue rethrows, lines 83-86.
V3Rejects ==
  /\ cloud # <<>>
  /\ V3Run.pc \in {"getLinearIssue", "createBranch", "gatherContextFromGitHub",
                   "generateWithClaude", "commitToGitHub", "createPullRequest"}
  /\ cloud' = << [V3Run EXCEPT !.pc = "threw"] >>
  /\ UNCHANGED heads
  /\ UNCHANGED v3Frame

\* main is at commit 2; the issue's branch does not exist or is left at
\* commit 1 by an earlier run.
V3Started ==
  /\ cloud = << [pc |-> "getLinearIssue", files |-> <<>>, steps |-> <<>>, published |-> <<>>] >>
  /\ heads \in [main : {2}, feature : {0, 1}]
  /\ branchCall = <<>>

InitV3 ==
  /\ V3Started
  /\ V2Idle /\ GhIdle /\ SvcIdle /\ ValIdle /\ CtxIdle /\ ParseIdle /\ ExtIdle /\ FbIdle

NextV3 ==
  \/ V3GetLinearIssue \/ V3CreateBranch \/ V3GatherContext \/ V3GenerateWithClaude
  \/ V3CommitToGitHub \/ V3CreatePullRequest \/ V3UpdateLinearIssue \/ V3Rejects

SpecV3 == InitV3 /\ [][NextV3]_vars

\* The index of a step in the run's log, 0 when it has not been done.
StepIndex(name) ==
  IF \E k \in DOMAIN V3Run.steps : V3Run.steps[k] = name
    THEN CHOOSE k \in DOMAIN V3Run.steps : V3Run.steps[k] = name
    ELSE 0

\* C32: the V3 run creates its branch only after it has read the context
\* files and the model has generated the implementation.
C32_DocumentedOrder ==
  (cloud # <<>> /\ StepIndex("createBranch") > 0) =>
    /\ StepIndex("readContext") > 0 /\ StepIndex("readContext") < StepIndex("createBranch")
    /\ StepIndex("generate") > 0 /\ StepIndex("generate") < StepIndex("createBranch")

(***************************************************************************)
(* The two callers of commitFiles side by side: a V3 run and a             *)
(* processFeedback call of the same service.                               *)
(***************************************************************************)
InitPublishers ==
  /\ V3Started
  /\ FeedbackStarted
  /\ V2Idle /\ GhIdle /\ SvcIdle /\ ValIdle /\ CtxIdle /\ ParseIdle /\ ExtIdle

NextPublishers == NextV3 \/ NextProcessFeedback

SpecPublishers == InitPublishers /\ [][NextPublishers]_vars

====
